---- MODULE Spec2Model ----
(***************************************************************************)
(* A model of the indexing side of DiagWiki (backend/utils):               *)
(*   - OllamaDocumentProcessor.__call__  (dataPipeline.py, "embed_all"),   *)
(*   - DataPipeline.process_folder / transform_and_save,                   *)
(*   - generate_db_name,                                                   *)
(*   - RepoUtil.read_file_as_document / collect_documents.                 *)
(*                                                                         *)
(* External libraries are not part of the repository and are modelled by   *)
(* everything they may answer: the tokenizer (tiktoken) gives a text any   *)
(* token count or fails, the embedding provider answers each call with a   *)
(* vector of any length, an empty result, a malformed result or an         *)
(* exception, and the text splitter cuts a document into any number of     *)
(* chunks.                                                                 *)
(***************************************************************************)
EXTENDS Integers, Sequences, FiniteSets, TLC

VARIABLES
    \* ---- embed_all called on its own ----
    documents,   \* the argument of OllamaDocumentProcessor.__call__
    provider,    \* provider[i]: what the embedder answers in iteration i
    pc,          \* "ready" before the call, "returned" / "raised" after it
    ret,         \* the locals of the call when it ended
    \* ---- the collector ----
    files,       \* the files under the folder, in os.walk order
    collected,   \* what read_file_as_document / collect_documents returned
    \* ---- the index store ----
    folder_kind, \* what folder_path is: "dir", "file" or "missing"
    store,       \* <db_dir>/db.pkl: None, or Some(the saved LocalDB state)
    stats,       \* what process_folder returned or raised
    replaced,    \* history: the last save overwrote a db.pkl that held a
                 \* chunk the new one does not hold
    \* ---- generate_db_name ----
    cwd,         \* os.getcwd()
    calls,       \* the calls made: [folder_path, db_name], in order
    \* ---- the wiki layer (api.py, wiki_generator.py) ----
    wiki_dirs,   \* <db_dir>/wiki/pages and <db_dir>/wiki/diagrams exist
    wiki_gen,    \* a WikiGenerator for the folder has been constructed
    request,     \* the request being served: None, or Some(a record)
    rag_call,    \* what self.rag.call gives _perform_section_rag_queries
    section,     \* what _perform_section_rag_queries returned
    rankings,    \* the dense and the lexical ranking of a query, and top_k
    fused,       \* the fused ranking of the query, with the fused scores
    diag_json,   \* <diagrams_dir>/diag_<section_id>.json: None, or Some(data)
    diag_mmd,    \* <diagrams_dir>/diag_<section_id>.mmd: None, or Some(code)
    sections_json, \* <diagrams_dir>/<page_id>_sections.json: None, or Some(data)
    wiki_db,     \* the wiki database file: None, or Some(its "wiki_content")
    events,      \* the calls the current request or method has made
    response     \* what the request answered: None, or Some(a record)

embedVars == <<documents, provider, ret>>
collectVars == <<files, collected>>
indexVars == <<folder_kind, store, stats, replaced>>
nameVars == <<cwd, calls>>
wikiVars == <<wiki_dirs, wiki_gen, request, rag_call, section, rankings, fused,
              diag_json, diag_mmd, sections_json, wiki_db, events, response>>

vars == <<pc, embedVars, collectVars, indexVars, nameVars, wikiVars>>

(***************************************************************************)
(* Bounds of the model.                                                    *)
(***************************************************************************)
\* longest chunk sequence handed to embed_all
MaxChunks == 3
\* longest embedding vector the provider returns
MaxDim == 1
\* most chunks the splitter makes of the documents of one indexing run
MaxSplit == 2
\* longest folder_path, in characters
MaxPathLen == 4

(***************************************************************************)
(* Configuration. Config.MAX_EMBEDDING_TOKENS is read from the environment *)
(* (default "6000"); the model runs with a small configured value, the     *)
(* code compares token counts with it and nothing else.                    *)
(***************************************************************************)
MAX_EMBEDDING_TOKENS == 2

\* Config.MAX_TOKEN_LIMIT, from the environment as well (default "8192")
MAX_TOKEN_LIMIT == 1

(***************************************************************************)
(* Python values.                                                          *)
(***************************************************************************)
\* Optional[int]: None is the empty sequence, a value n is <<n>>
None == <<>>
Some(n) == <<n>>

\* a list of n floats; the code reads nothing of a vector but its length
Vec(n) == [k \in 1..n |-> 0]

(***************************************************************************)
(* A text is known by what the tokenizer does with it: RepoUtil.token_count*)
(* returns text.tokens, or raises when tokenizes is FALSE (tiktoken raises *)
(* ValueError on a text holding a special token such as <|endoftext|>).    *)
(* The message of a tokenizer error never holds "context length" or        *)
(* "input length".                                                         *)
(***************************************************************************)
TokenCounts == {MAX_EMBEDDING_TOKENS, MAX_EMBEDDING_TOKENS + 1}

TokenCountRaises(text) == ~text.tokenizes
token_count(text) == text.tokens

\* adalflow Document: text, meta_data (a dict in every document the
\* collector and the splitter produce), vector (default [])
Document(text, meta_data) ==
    [text |-> text, meta_data |-> meta_data, vector |-> <<>>]

(***************************************************************************)
(* What the embedder may do in one call self.embedder(input=doc.text).     *)
(***************************************************************************)
Answers ==
    {[kind |-> k, dim |-> 0] :
        k \in {"raise_context_length", "raise_other", "no_data", "none_embedding"}}
    \cup {[kind |-> "vector", dim |-> n] : n \in 0..MaxDim}

(***************************************************************************)
(* OllamaDocumentProcessor.__call__, dataPipeline.py lines 133-193.        *)
(* The locals of a call:                                                   *)
(*   output                  the deep copy of the argument                 *)
(*   successful_docs         references into output: the indices i of the  *)
(*                           appended output[i], in the order appended     *)
(*   expected_embedding_size None, or Some(n)                              *)
(*   skipped_large_docs                                                    *)
(*   embedder_calls          the indices whose text was sent to the        *)
(*                           provider, in order                            *)
(*   iterations              loop iterations begun                         *)
(*   raised                  an exception left the loop                    *)
(***************************************************************************)
EmbedStart(docs) ==
    [output |-> docs,
     successful_docs |-> <<>>,
     expected_embedding_size |-> None,
     skipped_large_docs |-> 0,
     embedder_calls |-> <<>>,
     iterations |-> 0,
     raised |-> FALSE]

\* a comparison that also turns away a chunk exactly at the limit
ExceedsOrMeetsLimit(count) == count >= MAX_EMBEDDING_TOKENS

\* line 150: if token_count > Const.MAX_EMBEDDING_TOKENS
ExceedsEmbeddingLimit(count) == count > MAX_EMBEDDING_TOKENS

\* no validation of the embedding size
SizeNeverChecked(expected, n) == TRUE

\* lines 161-167: the first embedding sets the expected size, a later one
\* of another length is skipped
SizeAccepted(expected, n) == expected = None \/ n = expected[1]

\* no handler: the exception leaves the loop
ExceptionPropagates(st, doc, message) == [st EXCEPT !.raised = TRUE]

\* lines 175-188: except Exception as e. Only a message that looks like a
\* context-length failure makes the handler count the tokens again
\* (line 181, outside any try).
ExceptHandler(st, doc, message) ==
    IF message = "context length"
    THEN IF TokenCountRaises(doc.text)
         THEN [st EXCEPT !.raised = TRUE]
         ELSE [st EXCEPT !.skipped_large_docs = @ + 1]
    ELSE st

\* the embedded chunk put at the front of the result
AssignAndPrepend(st, i, n) ==
    [st EXCEPT !.output[i].vector = Vec(n),
               !.successful_docs = <<i>> \o @]

\* lines 169-171: output[i].vector = embedding; successful_docs.append(output[i])
AssignAndAppend(st, i, n) ==
    [st EXCEPT !.output[i].vector = Vec(n),
               !.successful_docs = Append(@, i)]

\* a chunk without an embedding kept in the result all the same
KeepsUnembedded(called, i) == [called EXCEPT !.successful_docs = Append(@, i)]

\* lines 172-174: no data in the result, a warning and nothing else
NoEmbedding(called, i) == called

\* lines 156-174: the provider is called and its answer handled
EmbedOne(st, i, doc, answer) ==
    LET called == [st EXCEPT !.embedder_calls = Append(@, i)] IN
    CASE answer.kind = "raise_context_length" ->
            ExceptHandler(called, doc, "context length")
      [] answer.kind = "raise_other" ->
            ExceptHandler(called, doc, "other")
      [] answer.kind = "no_data" ->
            NoEmbedding(called, i)
      [] answer.kind = "none_embedding" ->
            \* len(None) raises TypeError at line 162 or line 164
            ExceptHandler(called, doc, "other")
      [] answer.kind = "vector" ->
            IF called.expected_embedding_size = None
            THEN AssignAndAppend(
                   [called EXCEPT !.expected_embedding_size = Some(answer.dim)],
                   i, answer.dim)
            ELSE IF SizeAccepted(called.expected_embedding_size, answer.dim)
                 THEN AssignAndAppend(called, i, answer.dim)
                 ELSE called

\* lines 142-188: one iteration of the loop, for output[i]
EmbedIteration(st0, i, answer) ==
    LET st  == [st0 EXCEPT !.iterations = @ + 1]
        doc == st.output[i]
    IN  IF TokenCountRaises(doc.text)
        THEN ExceptHandler(st, doc, "other")
        ELSE IF ExceedsEmbeddingLimit(token_count(doc.text))
             THEN [st EXCEPT !.skipped_large_docs = @ + 1]
             ELSE EmbedOne(st, i, doc, answer)

\* the loop from iteration i on; an exception that leaves an iteration
\* ends the loop
RECURSIVE EmbedLoop(_, _, _)
EmbedLoop(st, i, answers) ==
    IF i > Len(st.output) \/ st.raised
    THEN st
    ELSE EmbedLoop(EmbedIteration(st, i, answers[i]), i + 1, answers)

\* the whole call; line 193 returns successful_docs
EmbedAll(docs, answers) == EmbedLoop(EmbedStart(docs), 1, answers)

Returned(st) == [k \in 1..Len(st.successful_docs) |-> st.output[st.successful_docs[k]]]

\* the wiki layer untouched: no WikiGenerator, no request
WikiIdle ==
    /\ wiki_dirs = FALSE
    /\ wiki_gen = FALSE
    /\ request = None
    /\ rag_call = None
    /\ section = None
    /\ rankings = None
    /\ fused = None
    /\ diag_json = None
    /\ diag_mmd = None
    /\ sections_json = None
    /\ wiki_db = None
    /\ events = {}
    /\ response = None

\* the index store untouched: a folder, no db.pkl, no call of process_folder
IndexIdle ==
    /\ WikiIdle
    /\ folder_kind = "dir"
    /\ store = None
    /\ stats = [status |-> "none"]
    /\ replaced = FALSE
    /\ cwd = <<"/">>
    /\ calls = <<>>

(***************************************************************************)
(* Specification SpecEmbed: embed_all applied to every chunk sequence of   *)
(* up to MaxChunks chunks, under every sequence of provider answers.       *)
(***************************************************************************)
ChunkInputs ==
    UNION {[1..n -> [tokenizes : BOOLEAN, tokens : TokenCounts]] : n \in 0..MaxChunks}

InitEmbed ==
    /\ \E shape \in ChunkInputs :
         documents = [i \in 1..Len(shape) |->
                        Document([id |-> i, tokenizes |-> shape[i].tokenizes,
                                  tokens |-> shape[i].tokens],
                                 [file_path |-> "main.py"])]
    /\ provider \in [1..Len(documents) -> Answers]
    /\ pc = "ready"
    /\ ret = EmbedStart(<<>>)
    /\ files = <<>>
    /\ collected = <<>>
    /\ IndexIdle

EmbedAllCall ==
    /\ pc = "ready"
    /\ ret' = EmbedAll(documents, provider)
    /\ pc' = IF ret'.raised THEN "raised" ELSE "returned"
    /\ UNCHANGED <<documents, provider, collectVars, indexVars, nameVars, wikiVars>>

NextEmbed == EmbedAllCall

SpecEmbed == InitEmbed /\ [][NextEmbed]_vars

(***************************************************************************)
(* Claims about embed_all (SpecEmbed).                                     *)
(***************************************************************************)
\* iteration i reaches the provider: its text tokenizes and is within the limit
Sent(i) ==
    /\ documents[i].text.tokenizes
    /\ documents[i].text.tokens <= MAX_EMBEDDING_TOKENS

\* iteration i obtains an embedding from the provider
Obtained(i) == Sent(i) /\ provider[i].kind = "vector"

\* iteration i ends in an exception (tokenizer, provider, or len(None))
Fails(i) ==
    \/ ~documents[i].text.tokenizes
    \/ Sent(i) /\ provider[i].kind \in
                    {"raise_context_length", "raise_other", "none_embedding"}

ObtainedSet == {i \in 1..Len(documents) : Obtained(i)}
FirstObtained == CHOOSE i \in ObtainedSet : \A j \in ObtainedSet : i <= j

\* the chunks the result must hold: obtained, with the first obtained length
Consistent ==
    {i \in ObtainedSet : provider[i].dim = provider[FirstObtained].dim}

RECURSIVE Ascending(_)
Ascending(S) ==
    IF S = {} THEN <<>>
    ELSE LET m == CHOOSE x \in S : \A y \in S : x <= y
         IN  <<m>> \o Ascending(S \ {m})

\* C1: all chunks embed_all returns carry a vector of one length, the
\* length of the first embedding the call obtained
C1_SameLength ==
    pc = "returned" =>
        \A k \in 1..Len(Returned(ret)) :
            /\ ObtainedSet # {}
            /\ Len(Returned(ret)[k].vector) = provider[FirstObtained].dim

\* two chunks returned, and a third dropped for its different length
C1_Witness ==
    /\ pc = "returned"
    /\ Len(Returned(ret)) >= 2
    /\ \E i \in ObtainedSet : i \notin Consistent

\* C2: no exception of the tokenizer or the provider leaves embed_all: the
\* call returns after one iteration per input chunk, a chunk whose
\* iteration failed is not in the result, and every chunk within the
\* limit, also after a failed one, was sent to the provider
C2_NoPropagation ==
    pc # "ready" =>
        /\ pc = "returned"
        /\ ret.iterations = Len(documents)
        /\ \A i \in 1..Len(documents) :
              /\ Fails(i) => \A k \in 1..Len(ret.successful_docs) :
                                 ret.successful_docs[k] # i
              /\ Sent(i) => \E k \in 1..Len(ret.embedder_calls) :
                                 ret.embedder_calls[k] = i

\* a provider exception, a tokenizer exception, and a later chunk returned
C2_Witness ==
    /\ pc = "returned"
    /\ \E i, j, k \in 1..Len(documents) :
          /\ i < k /\ j < k
          /\ Sent(i) /\ provider[i].kind = "raise_context_length"
          /\ ~documents[j].text.tokenizes
          /\ \E n \in 1..Len(ret.successful_docs) : ret.successful_docs[n] = k

\* C4: the result is the subsequence of the input made of exactly the
\* chunks within the limit whose call gave a vector of the expected
\* length, in input order, each with its own text and metadata
C4_Subsequence ==
    pc = "returned" =>
        /\ ret.successful_docs = Ascending(Consistent)
        /\ \A k \in 1..Len(ret.successful_docs) :
              LET i == ret.successful_docs[k] IN
              /\ Returned(ret)[k].text = documents[i].text
              /\ Returned(ret)[k].meta_data = documents[i].meta_data
              /\ Returned(ret)[k].vector = Vec(provider[i].dim)

\* a result of two chunks that leaves out a chunk between them
C4_Witness ==
    /\ pc = "returned"
    /\ \E a, b, c \in 1..Len(documents) :
          /\ a < b /\ b < c
          /\ ret.successful_docs = <<a, c>>

(***************************************************************************)
(* The collector, repoUtil.py.                                             *)
(*                                                                         *)
(* A file is [dirname, filename, ext, relpath, content, readable,          *)
(* tokenizes, tokens]: dirname is the directory under the root ("" for the  *)
(* root itself); content is its text, a sequence of characters;            *)
(* readable is FALSE when open/read raises; tokenizes and tokens say what  *)
(* the tokenizer does with the content. ext is os.path.splitext(filename)  *)
(* and relpath is os.path.relpath(full_path, root).                        *)
(***************************************************************************)
\* Const.CODE_EXTENSIONS, Const.DOC_EXTENSIONS, Const.DIR_SKIP_LIST: the
\* entries the file names of the model can meet
CODE_EXTENSIONS == {".py", ".js", ".ts"}
DOC_EXTENSIONS == {".md", ".txt", ".json"}
DIR_SKIP_LIST == {"node_modules", "venv", "__pycache__", ".git"}
LargeFilePatterns == {"package-lock.json", "yarn.lock", "poetry.lock"}

\* is_valuable_file with allowed_extensions None
is_valuable_file(file) ==
    IF file.filename \in LargeFilePatterns
    THEN FALSE
    ELSE file.ext \in CODE_EXTENSIONS \/ file.ext \in DOC_EXTENSIONS

\* the directory names of the model that start with "."
DotNames == {".git", ".cache"}

\* should_skip_directory, lines 70-73
should_skip_directory(dirname) == dirname \in DotNames \/ dirname \in DIR_SKIP_LIST

\* lines 192-201: os.walk descends from the root (dirname "", never tested)
\* into the directories not pruned, and a file is read when it is valuable
Visited(file) ==
    /\ file.dirname = "" \/ ~should_skip_directory(file.dirname)
    /\ is_valuable_file(file)

\* str.strip(): leading and trailing whitespace removed
IsSpace(c) == c \in {" ", "\n", "\t"}

RECURSIVE LStrip(_)
LStrip(text) ==
    IF text # <<>> /\ IsSpace(Head(text)) THEN LStrip(Tail(text)) ELSE text

RECURSIVE RStrip(_)
RStrip(text) ==
    IF text # <<>> /\ IsSpace(text[Len(text)])
    THEN RStrip(SubSeq(text, 1, Len(text) - 1))
    ELSE text

Strip(text) == RStrip(LStrip(text))

\* content[:n]
Prefix(content, n) == SubSeq(content, 1, IF n < Len(content) THEN n ELSE Len(content))

\* line 158: f'File_path: {relative_path}\ncontent: {content}'
FileText(relative_path, content) ==
    <<"File_path:", " ", relative_path, "\n", "content:", " ">> \o content

\* a dict with one more key set
DictSet(d, key, value) ==
    [k \in DOMAIN d \cup {key} |-> IF k = key THEN value ELSE d[k]]

\* line 128: token_count > MAX_TOKEN_LIMIT and token_count < MAX_TOKEN_LIMIT * 10
InTruncateBand(t) == t > MAX_TOKEN_LIMIT /\ t < MAX_TOKEN_LIMIT * 10

\* a skip test that lets a file exactly at the upper bound through
ExcessiveStrict(t) == t > MAX_TOKEN_LIMIT * 10

\* line 136: token_count >= MAX_TOKEN_LIMIT * 10
IsExcessive(t) == t >= MAX_TOKEN_LIMIT * 10

\* lines 140-158: the metadata and the Document. With root None (or "")
\* relative_path is never bound, line 158 raises UnboundLocalError and the
\* handler at line 160 returns None.
BuildDocument(file, root, content, count) ==
    IF root = None
    THEN None
    ELSE Some(Document(FileText(file.relpath, content),
                       [source |-> file.relpath,
                        filename |-> file.filename,
                        extension |-> file.ext,
                        token_count |-> count,
                        root |-> root[1],
                        file_path |-> file.relpath]))

\* read_file_as_document, lines 110-162: None, or Some(document)
read_file_as_document(file, root, truncate_large) ==
    IF ~file.readable \/ ~file.tokenizes
    THEN None
    ELSE IF InTruncateBand(file.tokens)
         THEN IF truncate_large
              THEN BuildDocument(file, root,
                                 Prefix(file.content, MAX_TOKEN_LIMIT * 10),
                                 MAX_TOKEN_LIMIT * 10)
              ELSE None
         ELSE IF IsExcessive(file.tokens)
              THEN None
              ELSE BuildDocument(file, root, file.content, file.tokens)

\* line 206: if doc and doc.text.strip()
Keeps(file, doc) == doc # None /\ Strip(doc[1].text) # <<>>

\* collect_documents, lines 180-212, over the files from position i on
RECURSIVE CollectFrom(_, _, _)
CollectFrom(fs, root, i) ==
    IF i > Len(fs)
    THEN <<>>
    ELSE LET file == fs[i]
             rest == CollectFrom(fs, root, i + 1)
             doc  == read_file_as_document(file, Some(root), TRUE)
         IN  IF ~Visited(file)
             THEN rest
             ELSE IF Keeps(file, doc)
                  THEN <<[doc[1] EXCEPT !.meta_data =
                             DictSet(@, "source_folder", root)]>> \o rest
                  ELSE rest

collect_documents(fs, root) == CollectFrom(fs, root, 1)

(***************************************************************************)
(* Specification SpecCollect: a folder of up to MaxFiles files, read one   *)
(* file at a time or collected as a whole.                                 *)
(***************************************************************************)
MaxFiles == 2

\* the root folder collect_documents is given
Root == "repo"

PathCases ==
    {[dirname |-> "", filename |-> "main.py", ext |-> ".py", relpath |-> "main.py"],
     [dirname |-> "", filename |-> "package-lock.json", ext |-> ".json",
      relpath |-> "package-lock.json"],
     [dirname |-> "", filename |-> "logo.png", ext |-> ".png", relpath |-> "logo.png"],
     [dirname |-> "node_modules", filename |-> "lib.js", ext |-> ".js",
      relpath |-> "node_modules/lib.js"],
     [dirname |-> "docs", filename |-> "guide.md", ext |-> ".md",
      relpath |-> "docs/guide.md"]}

Fill(c, n) == [k \in 1..n |-> c]

\* contents: empty, one character, and as long as and longer than the
\* character count the truncation cuts to; all blank or all letters
ContentLengths == {0, 1, MAX_TOKEN_LIMIT * 10, MAX_TOKEN_LIMIT * 10 + 1}
Contents == {Fill(c, n) : c \in {" ", "a"}, n \in ContentLengths}

\* token counts around the two thresholds
FileTokenCounts ==
    {0, MAX_TOKEN_LIMIT, MAX_TOKEN_LIMIT + 1,
     MAX_TOKEN_LIMIT * 10 - 1, MAX_TOKEN_LIMIT * 10, MAX_TOKEN_LIMIT * 10 + 1}

\* what a tokenizer can say of a content: nothing for the empty text, and
\* for another at least one token and at most one per byte (a character
\* has at most 4 bytes)
Tokenizations(content) ==
    IF content = <<>>
    THEN {0}
    ELSE {t \in FileTokenCounts : 1 <= t /\ t <= 4 * Len(content)}

\* an unreadable file, a content the tokenizer refuses, or a content with
\* its token count
FileStates ==
    {[content |-> c, readable |-> FALSE, tokenizes |-> TRUE, tokens |-> 0] :
        c \in {Fill("a", 1)}}
    \cup {[content |-> c, readable |-> TRUE, tokenizes |-> FALSE, tokens |-> 0] :
        c \in {Fill("a", 1)}}
    \cup UNION {{[content |-> c, readable |-> TRUE, tokenizes |-> TRUE, tokens |-> t] :
                    t \in Tokenizations(c)} : c \in Contents}

File(path, state) ==
    [dirname |-> path.dirname, filename |-> path.filename, ext |-> path.ext,
     relpath |-> path.relpath, content |-> state.content,
     readable |-> state.readable, tokenizes |-> state.tokenizes,
     tokens |-> state.tokens]

\* main.py in every state; the other paths with one short readable text
PlainState ==
    [content |-> Fill("a", 1), readable |-> TRUE, tokenizes |-> TRUE,
     tokens |-> MAX_TOKEN_LIMIT]

FolderFiles ==
    {File(p, st) : p \in {q \in PathCases : q.filename = "main.py"}, st \in FileStates}
    \cup {File(p, PlainState) : p \in PathCases}

\* a folder holds one file per path
Folders ==
    {fs \in UNION {[1..n -> FolderFiles] : n \in 0..MaxFiles} :
        \A i, j \in 1..Len(fs) : i # j => fs[i].relpath # fs[j].relpath}

InitCollect ==
    /\ files \in Folders
    /\ pc = "ready"
    /\ collected = <<>>
    /\ documents = <<>>
    /\ provider = <<>>
    /\ ret = EmbedStart(<<>>)
    /\ IndexIdle

\* RepoUtil.read_file_as_document(full_path, root, truncate_large) on one
\* file of the folder; collected is <<>> for None
ReadFileAsDocument ==
    /\ pc = "ready"
    /\ \E i \in 1..Len(files), root \in {None, Some(Root)}, truncate_large \in BOOLEAN :
          /\ collected' = read_file_as_document(files[i], root, truncate_large)
          /\ pc' = "read"
    /\ UNCHANGED <<files, embedVars, indexVars, nameVars, wikiVars>>

\* RepoUtil.collect_documents(root)
CollectDocuments ==
    /\ pc = "ready"
    /\ collected' = collect_documents(files, Root)
    /\ pc' = "collected"
    /\ UNCHANGED <<files, embedVars, indexVars, nameVars, wikiVars>>

NextCollect == ReadFileAsDocument \/ CollectDocuments

SpecCollect == InitCollect /\ [][NextCollect]_vars

(***************************************************************************)
(* Claims about the collector (SpecCollect).                               *)
(***************************************************************************)
\* the documents collect_documents returned for a file
DocsOf(file) ==
    SelectSeq(collected, LAMBDA d : d.meta_data["file_path"] = file.relpath)

\* the collector read the file and counted its tokens
ReadAndCounted(file) == Visited(file) /\ file.readable /\ file.tokenizes

\* C8: a file the collector read, of token count t, is kept with its full
\* content when t <= MAX_TOKEN_LIMIT, kept with its content cut to the first
\* 10 * MAX_TOKEN_LIMIT characters when MAX_TOKEN_LIMIT < t < 10 *
\* MAX_TOKEN_LIMIT, and yields no document when t >= 10 * MAX_TOKEN_LIMIT
C8_TokenBands ==
    pc = "collected" =>
        \A i \in 1..Len(files) :
            LET file == files[i]
                t    == file.tokens
                docs == DocsOf(file)
            IN  ReadAndCounted(file) =>
                  /\ t <= MAX_TOKEN_LIMIT =>
                        /\ Len(docs) = 1
                        /\ docs[1].text = FileText(file.relpath, file.content)
                  /\ (MAX_TOKEN_LIMIT < t /\ t < 10 * MAX_TOKEN_LIMIT) =>
                        /\ Len(docs) = 1
                        /\ docs[1].text =
                             FileText(file.relpath,
                                      Prefix(file.content, 10 * MAX_TOKEN_LIMIT))
                        /\ Len(docs[1].text) <=
                             Len(FileText(file.relpath, <<>>)) + 10 * MAX_TOKEN_LIMIT
                  /\ t >= 10 * MAX_TOKEN_LIMIT => docs = <<>>

\* a file in the middle band whose document lost the end of its content
C8_Witness ==
    /\ pc = "collected"
    /\ \E i \in 1..Len(files) :
          /\ ReadAndCounted(files[i])
          /\ MAX_TOKEN_LIMIT < files[i].tokens
          /\ files[i].tokens < 10 * MAX_TOKEN_LIMIT
          /\ Len(DocsOf(files[i])) = 1
          /\ DocsOf(files[i])[1].text # FileText(files[i].relpath, files[i].content)

\* C9: collect_documents returns no document for a file whose content is
\* empty or only whitespace
C9_BlankFilesDropped ==
    pc = "collected" =>
        \A i \in 1..Len(files) :
            Strip(files[i].content) = <<>> => DocsOf(files[i]) = <<>>

\* C26: read_file_as_document returns a Document with the file content for
\* a readable file whose token count is below the skip bound, with root
\* given and with root omitted: on a folder whose files are all readable
\* and within MAX_TOKEN_LIMIT, every call returns a Document
C26_RootOptional ==
    [][(/\ pc = "ready"
        /\ pc' = "read"
        /\ \A i \in 1..Len(files) :
              /\ files[i].readable
              /\ files[i].tokenizes
              /\ files[i].tokens <= MAX_TOKEN_LIMIT) =>
          /\ collected' # None
          /\ \E i \in 1..Len(files) :
                collected'[1].text = FileText(files[i].relpath, files[i].content)]_vars

(***************************************************************************)
(* The indexing pipeline, dataPipeline.py lines 231-323.                   *)
(***************************************************************************)
\* a text of every kind the tokenizer tells apart
TextShapes ==
    {[tokenizes |-> TRUE, tokens |-> t] : t \in TokenCounts}
    \cup {[tokenizes |-> FALSE, tokens |-> MAX_EMBEDDING_TOKENS]}

\* self.splitter (adalflow TextSplitter, lines 221-229) on the collected
\* documents: the chunks of the first document, then those of the second,
\* ..., each with a copy of its parent's meta_data and no vector. How many
\* chunks a document gives and what they hold is the splitter's.
SplitResults(docs) ==
    UNION {{[k \in 1..n |->
                Document([id |-> k, tokenizes |-> shape[k].tokenizes,
                          tokens |-> shape[k].tokens],
                         docs[parent[k]].meta_data)] :
              parent \in {f \in [1..n -> 1..Len(docs)] :
                            \A a, b \in 1..n : a <= b => f[a] <= f[b]},
              shape \in [1..n -> TextShapes]} :
           n \in 0..MaxSplit}

\* the provider's answers to the calls of one run; for a chunk that is
\* never sent there is no call and no answer to choose
ProviderAnswers(chunks) ==
    {a \in [1..Len(chunks) -> Answers] :
        \A k \in 1..Len(chunks) :
            (\/ ~chunks[k].text.tokenizes
             \/ chunks[k].text.tokens > MAX_EMBEDDING_TOKENS)
            => a[k] = [kind |-> "no_data", dim |-> 0]}

\* a save that adds to the state db.pkl already holds
MergeState(old, db) ==
    IF old = None
    THEN Some(db)
    ELSE Some([items |-> old[1].items \o db.items,
               transformed |-> old[1].transformed \o db.transformed])

\* lines 319-321: makedirs(exist_ok=True); db.save_state(filepath=db_file)
\* writes the state of the LocalDB made at line 313 over the file
SaveState(old, db) == Some(db)

\* line 297: hasattr(doc, 'vector') and doc.vector is not None; the vector
\* of a Document is a list, [] until one is assigned
HasVector(doc) == "vector" \in DOMAIN doc

\* lines 283-306
Statistics(docs, transformed_docs) ==
    LET with_vector == {k \in 1..Len(transformed_docs) : HasVector(transformed_docs[k])}
        sizes == {Len(transformed_docs[k].vector) : k \in with_vector}
        exts  == {transformed_docs[k].meta_data["extension"] :
                     k \in 1..Len(transformed_docs)}
    IN  [status |-> "success",
         original_document_count |-> Len(docs),
         transformed_chunk_count |-> Len(transformed_docs),
         chunks_with_embeddings |-> Cardinality(with_vector),
         embedding_sizes |->
            [sz \in sizes |->
                Cardinality({k \in with_vector : Len(transformed_docs[k].vector) = sz})],
         file_types |->
            [e \in exts |->
                Cardinality({k \in 1..Len(transformed_docs) :
                                transformed_docs[k].meta_data["extension"] = e})]]

\* the chunks of a saved state
Persisted(st) == IF st = None THEN <<>> ELSE st[1].transformed

SeqSet(q) == {q[k] : k \in 1..Len(q)}

\* a failure that removes the database of the folder
RaiseAndRemove(exception) ==
    /\ pc' = "error"
    /\ stats' = [status |-> exception]
    /\ store' = None
    /\ UNCHANGED replaced

\* process_folder raises: nothing is written
Raise(exception) ==
    /\ pc' = "error"
    /\ stats' = [status |-> exception]
    /\ UNCHANGED <<store, replaced>>

\* DataPipeline.process_folder(folder_path), with transform_and_save
process_folder ==
    /\ IF folder_kind = "missing"
       THEN Raise("FileNotFoundError") /\ UNCHANGED <<embedVars, collected>>
       ELSE IF folder_kind # "dir"
       THEN Raise("ValueError") /\ UNCHANGED <<embedVars, collected>>
       ELSE LET docs == collect_documents(files, Root) IN
            /\ collected' = docs
            /\ IF docs = <<>>
               THEN Raise("ValueError") /\ UNCHANGED embedVars
               ELSE \E chunks \in SplitResults(docs) :
                    \E answers \in ProviderAnswers(chunks) :
                       LET run == EmbedAll(chunks, answers)
                           db  == [items |-> docs, transformed |-> Returned(run)]
                       IN  /\ documents' = chunks
                           /\ provider' = answers
                           /\ ret' = run
                           /\ IF run.raised
                              THEN Raise("Exception")
                              ELSE /\ store' = SaveState(store, db)
                                   /\ stats' = Statistics(docs, Persisted(store'))
                                   /\ replaced' =
                                        (SeqSet(Persisted(store))
                                           \ SeqSet(db.transformed) # {})
                                   /\ pc' = "indexed"
    /\ UNCHANGED <<files, folder_kind, nameVars>>

\* a call of process_folder on its own
ProcessFolder ==
    /\ pc = "ready"
    /\ process_folder
    /\ UNCHANGED wikiVars

\* the caller has the statistics or the exception; the locals of the call
\* are gone and db.pkl stays
Forget ==
    /\ pc \in {"indexed", "error"}
    /\ pc' = "ready"
    /\ documents' = <<>>
    /\ provider' = <<>>
    /\ ret' = EmbedStart(<<>>)
    /\ collected' = <<>>
    /\ stats' = [status |-> "none"]
    /\ replaced' = FALSE
    /\ UNCHANGED <<files, folder_kind, store, nameVars, wikiVars>>

(***************************************************************************)
(* Specification SpecIndex: folders indexed and indexed again.             *)
(***************************************************************************)
PathOf(filename) == CHOOSE p \in PathCases : p.filename = filename

UnreadableState ==
    [content |-> Fill("a", 1), readable |-> FALSE, tokenizes |-> TRUE, tokens |-> 0]

IndexFolders ==
    {<<>>,
     <<File(PathOf("main.py"), PlainState)>>,
     <<File(PathOf("main.py"), UnreadableState)>>,
     <<File(PathOf("logo.png"), PlainState)>>,
     <<File(PathOf("guide.md"), PlainState), File(PathOf("main.py"), PlainState)>>}

InitIndex ==
    /\ folder_kind \in {"dir", "file", "missing"}
    /\ files \in IF folder_kind = "dir" THEN IndexFolders ELSE {<<>>}
    /\ store = None
    /\ stats = [status |-> "none"]
    /\ replaced = FALSE
    /\ pc = "ready"
    /\ collected = <<>>
    /\ documents = <<>>
    /\ provider = <<>>
    /\ ret = EmbedStart(<<>>)
    /\ cwd = <<"/">>
    /\ calls = <<>>
    /\ WikiIdle

\* between two calls the folder is edited, replaced by a file or removed
FolderChanges ==
    /\ pc = "ready"
    /\ folder_kind' \in {"dir", "file", "missing"}
    /\ files' \in IF folder_kind' = "dir" THEN IndexFolders ELSE {<<>>}
    /\ <<folder_kind', files'>> # <<folder_kind, files>>
    /\ UNCHANGED <<pc, embedVars, collected, store, stats, replaced, nameVars, wikiVars>>

NextIndex == ProcessFolder \/ Forget \/ FolderChanges

SpecIndex == InitIndex /\ [][NextIndex]_vars

(***************************************************************************)
(* Claims about the index store (SpecIndex). After process_folder,         *)
(* documents holds the chunks the splitter handed to embed_all and ret the *)
(* locals of that call.                                                    *)
(***************************************************************************)
InCalls(i) == \E k \in 1..Len(ret.embedder_calls) : ret.embedder_calls[k] = i

\* the chunk of position i, with whatever vector, is in the sequence q
HoldsText(q, i) == \E k \in 1..Len(q) : q[k].text = documents[i].text

\* C3: a chunk of more than MAX_EMBEDDING_TOKENS tokens is never sent to
\* the provider and is neither in the result of embed_all nor in the
\* persisted chunk set; a chunk of exactly MAX_EMBEDDING_TOKENS tokens is
\* sent to the provider
C3_OversizedExcluded ==
    pc = "indexed" =>
        \A i \in 1..Len(documents) :
            LET text == documents[i].text IN
            /\ (text.tokenizes /\ text.tokens > MAX_EMBEDDING_TOKENS) =>
                  /\ ~InCalls(i)
                  /\ ~HoldsText(Returned(ret), i)
                  /\ ~HoldsText(Persisted(store), i)
            /\ (text.tokenizes /\ text.tokens = MAX_EMBEDDING_TOKENS) => InCalls(i)

\* one chunk over the limit left out, one chunk at the limit persisted
C3_Witness ==
    /\ pc = "indexed"
    /\ \E i, j \in 1..Len(documents) :
          /\ documents[i].text.tokenizes
          /\ documents[i].text.tokens = MAX_EMBEDDING_TOKENS + 1
          /\ documents[j].text.tokenizes
          /\ documents[j].text.tokens = MAX_EMBEDDING_TOKENS
          /\ HoldsText(Persisted(store), j)
          /\ Len(Persisted(store)) = 1

\* C5: every persisted chunk has the vector the provider gave for it:
\* process_folder reports chunks_with_embeddings = transformed_chunk_count,
\* and embedding_sizes has at most one size, counted chunks_with_embeddings
\* times
C5_AllPersistedEmbedded ==
    pc = "indexed" =>
        /\ stats.transformed_chunk_count = Len(Persisted(store))
        /\ stats.chunks_with_embeddings = stats.transformed_chunk_count
        /\ Cardinality(DOMAIN stats.embedding_sizes) <= 1
        /\ \A sz \in DOMAIN stats.embedding_sizes :
              stats.embedding_sizes[sz] = stats.chunks_with_embeddings
        /\ \A k \in 1..Len(Persisted(store)) :
              \E i \in 1..Len(documents) :
                 /\ Persisted(store)[k].text = documents[i].text
                 /\ InCalls(i)
                 /\ provider[i].kind = "vector"
                 /\ Persisted(store)[k].vector = Vec(provider[i].dim)

\* one chunk persisted while the provider gave nothing for another
C5_Witness ==
    /\ pc = "indexed"
    /\ stats.chunks_with_embeddings = 1
    /\ Len(documents) >= 2
    /\ \E i \in 1..Len(documents) : InCalls(i) /\ provider[i].kind = "no_data"

\* C10: after transform_and_save db.pkl holds exactly the chunk set of the
\* latest run, also when the directory held a db.pkl before: nothing of
\* the earlier state is merged in
C10_Overwrite ==
    pc = "indexed" =>
        /\ store # None
        /\ Persisted(store) = Returned(ret)
        /\ store[1].items = collected

\* a second run over a db.pkl, which lost a chunk of the earlier run
C10_Witness ==
    /\ pc = "indexed"
    /\ replaced
    /\ Persisted(store) # <<>>

\* <data_dir>/<db_name> exists: made at line 319, right before db.pkl is
\* written into it at line 321, or by WikiCache.__init__ as the parent of
\* the wiki directories (wiki_generator.py lines 53-54)
DbDirExists == store # None \/ wiki_dirs

\* C11: process_folder raises FileNotFoundError for a path that does not
\* exist, ValueError for a path that is not a directory and ValueError for
\* a folder that yields no document, and in these three cases the database
\* directory and db.pkl are as they were before the call
C11_StructuralErrors ==
    [][(pc = "ready" /\ pc' # "ready") =>
          /\ folder_kind = "missing" =>
                pc' = "error" /\ stats'.status = "FileNotFoundError"
          /\ folder_kind = "file" =>
                pc' = "error" /\ stats'.status = "ValueError"
          /\ (folder_kind = "dir" /\ collect_documents(files, Root) = <<>>) =>
                pc' = "error" /\ stats'.status = "ValueError"
          /\ stats'.status \in {"FileNotFoundError", "ValueError"} =>
                /\ store' = store
                /\ DbDirExists' = DbDirExists
                /\ \/ folder_kind # "dir"
                   \/ collect_documents(files, Root) = <<>>]_vars

\* a folder that was indexed, then emptied of valuable files: the call
\* raises ValueError and db.pkl still holds the chunks of the earlier run
C11_Witness ==
    /\ pc = "error"
    /\ stats.status = "ValueError"
    /\ folder_kind = "dir"
    /\ files # <<>>
    /\ Persisted(store) # <<>>

(***************************************************************************)
(* generate_db_name, dataPipeline.py lines 90-121. A path is a sequence of *)
(* characters; os.path is posixpath.                                       *)
(***************************************************************************)
\* str.split("/")
RECURSIVE SplitSep(_, _)
SplitSep(path, current) ==
    IF path = <<>>
    THEN <<current>>
    ELSE IF Head(path) = "/"
         THEN <<current>> \o SplitSep(Tail(path), <<>>)
         ELSE SplitSep(Tail(path), Append(current, Head(path)))

\* "/".join(comps)
RECURSIVE JoinSep(_)
JoinSep(comps) ==
    IF comps = <<>> THEN <<>>
    ELSE IF Len(comps) = 1 THEN comps[1]
    ELSE comps[1] \o <<"/">> \o JoinSep(Tail(comps))

StartsWith(path, prefix) ==
    Len(path) >= Len(prefix) /\ SubSeq(path, 1, Len(prefix)) = prefix

\* posixpath.normpath: the loop over the components
RECURSIVE NormComps(_, _, _)
NormComps(comps, new_comps, initial_slashes) ==
    IF comps = <<>>
    THEN new_comps
    ELSE LET comp == Head(comps) IN
         IF comp = <<>> \/ comp = <<".">>
         THEN NormComps(Tail(comps), new_comps, initial_slashes)
         ELSE IF \/ comp # <<".", ".">>
                 \/ (initial_slashes = 0 /\ new_comps = <<>>)
                 \/ (new_comps # <<>> /\ new_comps[Len(new_comps)] = <<".", ".">>)
              THEN NormComps(Tail(comps), Append(new_comps, comp), initial_slashes)
              ELSE IF new_comps # <<>>
                   THEN NormComps(Tail(comps),
                                  SubSeq(new_comps, 1, Len(new_comps) - 1),
                                  initial_slashes)
                   ELSE NormComps(Tail(comps), new_comps, initial_slashes)

\* posixpath.normpath: one or two leading slashes are kept, three or more
\* are one
normpath(path) ==
    IF path = <<>>
    THEN <<".">>
    ELSE LET initial_slashes ==
                 IF ~StartsWith(path, <<"/">>) THEN 0
                 ELSE IF StartsWith(path, <<"/", "/">>)
                         /\ ~StartsWith(path, <<"/", "/", "/">>)
                      THEN 2 ELSE 1
             joined == JoinSep(NormComps(SplitSep(path, <<>>), <<>>, initial_slashes))
             result == Fill("/", initial_slashes) \o joined
         IN  IF result = <<>> THEN <<".">> ELSE result

\* posixpath.join(a, b)
join(a, b) ==
    IF StartsWith(b, <<"/">>) THEN b
    ELSE IF a = <<>> \/ a[Len(a)] = "/" THEN a \o b
    ELSE a \o <<"/">> \o b

\* posixpath.abspath
abspath(path, dir) ==
    IF StartsWith(path, <<"/">>) THEN normpath(path) ELSE normpath(join(dir, path))

\* posixpath.basename: what follows the last "/"
RECURSIVE basename(_)
basename(path) ==
    IF path = <<>> \/ path[Len(path)] = "/"
    THEN <<>>
    ELSE Append(basename(SubSeq(path, 1, Len(path) - 1)), path[Len(path)])

\* the characters [a-zA-Z0-9_-] among those of the model
NameChars == {"a", "_", "-"}

\* line 110: re.sub(r'[^a-zA-Z0-9_-]', '_', folder_name)
ReplaceOthers(name) ==
    [k \in 1..Len(name) |-> IF name[k] \in NameChars THEN name[k] ELSE "_"]

\* line 111: re.sub(r'_+', '_', ...)
RECURSIVE Collapse(_)
Collapse(name) ==
    IF Len(name) < 2 THEN name
    ELSE IF name[1] = "_" /\ name[2] = "_"
         THEN Collapse(Tail(name))
         ELSE <<name[1]>> \o Collapse(Tail(name))

\* line 112: .strip('_')
RECURSIVE StripUnderscores(_)
StripUnderscores(name) ==
    IF name # <<>> /\ name[1] = "_" THEN StripUnderscores(Tail(name))
    ELSE IF name # <<>> /\ name[Len(name)] = "_"
         THEN StripUnderscores(SubSeq(name, 1, Len(name) - 1))
         ELSE name

Sanitize(folder_name) == StripUnderscores(Collapse(ReplaceOthers(folder_name)))

\* the path as it was given, not normalized
AsGiven(folder_path, dir) == folder_path

\* line 104: os.path.normpath(os.path.abspath(folder_path))
NormalizedPath(folder_path, dir) == normpath(abspath(folder_path, dir))

\* a hash of the folder name alone
HashOfName(normalized_path, folder_name) == [sha256_8 |-> folder_name]

\* line 115: hashlib.sha256(normalized_path.encode('utf-8')).hexdigest()[:8],
\* eight hexadecimal characters; taken as injective on the paths of the model
PathHash(normalized_path, folder_name) == [sha256_8 |-> normalized_path]

\* lines 103-121; db_name is f"{sanitized_name}_{path_hash}", and as
\* path_hash has a fixed length the two parts determine it and it them
generate_db_name(folder_path, dir) ==
    LET normalized_path == NormalizedPath(folder_path, dir)
        folder_name     == basename(normalized_path)
    IN  [sanitized_name |-> Sanitize(folder_name),
         path_hash |-> PathHash(normalized_path, folder_name)]

(***************************************************************************)
(* Specification SpecName: generate_db_name called twice, on any two       *)
(* paths of up to MaxPathLen characters.                                   *)
(***************************************************************************)
PathChars == {"/", ".", "a"}
Paths == UNION {[1..n -> PathChars] : n \in 0..MaxPathLen}
WorkingDirs == {<<"/">>, <<"/", "a">>}

InitName ==
    /\ cwd \in WorkingDirs
    /\ calls = <<>>
    /\ pc = "ready"
    /\ collected = <<>>
    /\ files = <<>>
    /\ documents = <<>>
    /\ provider = <<>>
    /\ ret = EmbedStart(<<>>)
    /\ folder_kind = "dir"
    /\ store = None
    /\ stats = [status |-> "none"]
    /\ replaced = FALSE
    /\ WikiIdle

GenerateDbName ==
    /\ Len(calls) < 2
    /\ \E folder_path \in Paths :
          calls' = Append(calls, [folder_path |-> folder_path,
                                  db_name |-> generate_db_name(folder_path, cwd)])
    /\ UNCHANGED <<pc, cwd, embedVars, collectVars, indexVars, wikiVars>>

NextName == GenerateDbName

SpecName == InitName /\ [][NextName]_vars

(***************************************************************************)
(* Claims about generate_db_name (SpecName).                               *)
(***************************************************************************)
EndsWithSlash(path) == path # <<>> /\ path[Len(path)] = "/"

\* q spells the folder of p another way: a trailing slash, a trailing
\* repeated separator, a trailing or leading "." component, or "a/.." for
\* the current directory
SameFolderSpelling(p, q) ==
    \/ p # <<>> /\ ~EndsWithSlash(p) /\ q = p \o <<"/">>
    \/ p # <<>> /\ ~EndsWithSlash(p) /\ q = p \o <<"/", "/">>
    \/ p # <<>> /\ ~EndsWithSlash(p) /\ q = p \o <<"/", ".">>
    \/ ~StartsWith(p, <<"/">>) /\ q = <<".", "/">> \o p
    \/ p \in {<<>>, <<".">>} /\ q = <<"a", "/", ".", ".">>

\* C6: generate_db_name depends on the normalized absolute path alone: two
\* calls whose arguments normalize to the same path (the same argument, or
\* another spelling of the folder) return the same name
C6_Deterministic ==
    \A i, j \in 1..Len(calls) :
        LET p == calls[i].folder_path
            q == calls[j].folder_path
        IN  (\/ NormalizedPath(p, cwd) = NormalizedPath(q, cwd)
             \/ SameFolderSpelling(p, q))
            => calls[i].db_name = calls[j].db_name

\* a relative path and the absolute path with a trailing slash, one name
C6_Witness ==
    /\ Len(calls) = 2
    /\ ~StartsWith(calls[1].folder_path, <<"/">>)
    /\ calls[1].folder_path # <<>>
    /\ StartsWith(calls[2].folder_path, <<"/">>)
    /\ EndsWithSlash(calls[2].folder_path)
    /\ calls[1].db_name = calls[2].db_name

\* the folder a normalized absolute path reaches on a file system where
\* /aa is a symbolic link to the folder /a (what os.path.realpath answers)
Reached(normalized_path) ==
    IF StartsWith(normalized_path, <<"/", "a", "a">>)
       /\ (Len(normalized_path) = 3 \/ normalized_path[4] = "/")
    THEN <<"/", "a">> \o SubSeq(normalized_path, 4, Len(normalized_path))
    ELSE normalized_path

\* C25: generate_db_name resolves symbolic links: two paths that reach the
\* same folder, one of them through a symbolic link, get the same name
C25_SymlinksResolved ==
    \A i, j \in 1..Len(calls) :
        Reached(NormalizedPath(calls[i].folder_path, cwd))
          = Reached(NormalizedPath(calls[j].folder_path, cwd))
        => calls[i].db_name = calls[j].db_name

\* C7: two distinct normalized absolute paths with the same basename get
\* different names (the hash prefix taken as injective), and every name is
\* a sanitized basename of letters, digits, "-" and "_" only, followed by
\* the hash of the normalized path
C7_DistinctNames ==
    /\ \A i, j \in 1..Len(calls) :
          LET p == NormalizedPath(calls[i].folder_path, cwd)
              q == NormalizedPath(calls[j].folder_path, cwd)
          IN  (p # q /\ basename(p) = basename(q))
              => calls[i].db_name # calls[j].db_name
    /\ \A i \in 1..Len(calls) :
          LET name == calls[i].db_name
              p    == NormalizedPath(calls[i].folder_path, cwd)
          IN  /\ \A k \in 1..Len(name.sanitized_name) :
                    name.sanitized_name[k] \in {"a", "_", "-"}
              /\ name.path_hash = [sha256_8 |-> p]

\* two folders named alike in different places, the name holding a
\* character that had to be replaced
C7_Witness ==
    /\ Len(calls) = 2
    /\ LET p == NormalizedPath(calls[1].folder_path, cwd)
           q == NormalizedPath(calls[2].folder_path, cwd)
       IN  /\ p # q
           /\ basename(p) = basename(q)
           /\ \E k \in 1..Len(basename(p)) : basename(p)[k] = "."
           /\ calls[1].db_name.sanitized_name = calls[2].db_name.sanitized_name
           /\ calls[1].db_name.sanitized_name # <<>>
           /\ calls[1].db_name # calls[2].db_name

(***************************************************************************)
(* The request handlers of api.py over the index store. One folder is      *)
(* served; its database is <data_dir>/<generate_db_name(root_path)>.       *)
(***************************************************************************)
\* HTTPException(status_code, detail), as the client sees it
HTTPException(status_code, detail) ==
    Some([status_code |-> status_code, detail |-> detail])

\* the index store's load, by its contract: the chunks of the file, or
\* NotFoundError when the path does not exist
RagLoadDatabase(st) ==
    IF st = None
    THEN [raised |-> TRUE, transformed_docs |-> <<>>]
    ELSE [raised |-> FALSE, transformed_docs |-> Persisted(st)]

\* the retrieval facade's call: an answer with the documents used, or a
\* GenerationError
RagCallOutcomes == {"answer", "GenerationError"}

\* WikiCache.__init__, lines 38-54: the two makedirs create the database
\* directory as the parent of wiki/pages and wiki/diagrams
WikiCacheInit == wiki_dirs' = TRUE

\* a db.pkl that is always found
DbPathAlways(st) == TRUE

\* a db.pkl that is never found
DbPathNever(st) == FALSE

\* os.path.exists(db_path), api.py lines 193 and 304
DbPathExists(st) == st # None

\* the handler returns, or raises the HTTPException, r
Answer(r) ==
    /\ response' = r
    /\ pc' = "responded"

\* POST /initWiki, api.py lines 157-252
InitWiki ==
    /\ pc = "ready"
    /\ request' = Some([endpoint |-> "/initWiki"])
    /\ UNCHANGED <<files, folder_kind, stats, replaced, nameVars, wiki_dirs, wiki_gen,
                   rag_call, section, rankings, fused, diag_json, diag_mmd, sections_json, wiki_db>>
    /\ IF folder_kind = "missing"
       THEN /\ Answer(HTTPException(404, "Folder not found"))
            /\ events' = {}
            /\ UNCHANGED <<embedVars, collected, store>>
       ELSE IF folder_kind # "dir"
       THEN /\ Answer(HTTPException(400, "Path is not a directory"))
            /\ events' = {}
            /\ UNCHANGED <<embedVars, collected, store>>
       ELSE LET db_exists == DbPathExists(store) IN
            IF ~db_exists
            THEN LET docs == collect_documents(files, Root) IN
                 /\ collected' = docs
                 /\ IF docs = <<>>
                    THEN /\ Answer(HTTPException(400, "No documents found in folder"))
                         /\ events' = {"collect_documents"}
                         /\ UNCHANGED <<embedVars, store>>
                    ELSE \E chunks \in SplitResults(docs) :
                         \E answers \in ProviderAnswers(chunks) :
                            LET run == EmbedAll(chunks, answers)
                                db  == [items |-> docs, transformed |-> Returned(run)]
                            IN  /\ documents' = chunks
                                /\ provider' = answers
                                /\ ret' = run
                                /\ IF run.raised
                                   THEN /\ Answer(HTTPException(500, "Failed to initialize wiki"))
                                        /\ events' = {"collect_documents", "transform"}
                                        /\ UNCHANGED store
                                   ELSE LET rag == RagLoadDatabase(SaveState(store, db)) IN
                                        /\ store' = SaveState(store, db)
                                        /\ events' = {"collect_documents", "transform",
                                                      "save_state", "load_database"}
                                        /\ Answer(
                                             IF rag.raised
                                             THEN HTTPException(500, "Failed to initialize wiki")
                                             ELSE Some([status_code |-> 200,
                                                        database_existed |-> db_exists,
                                                        rag_ready |-> TRUE,
                                                        document_count |-> Len(rag.transformed_docs)]))
            ELSE LET rag == RagLoadDatabase(store) IN
                 /\ events' = {"load_state", "load_database"}
                 /\ Answer(
                      IF rag.raised
                      THEN HTTPException(500, "Failed to initialize wiki")
                      ELSE Some([status_code |-> 200,
                                 database_existed |-> db_exists,
                                 rag_ready |-> TRUE,
                                 document_count |-> Len(rag.transformed_docs)]))
                 /\ UNCHANGED <<embedVars, collected, store>>

\* POST /query, api.py lines 254-356
QueryWiki ==
    /\ pc = "ready"
    /\ UNCHANGED <<files, folder_kind, embedVars, collected, indexVars, nameVars, wiki_gen,
                   rag_call, section, rankings, fused, diag_json, diag_mmd, sections_json, wiki_db>>
    /\ \E include_wiki \in BOOLEAN, use_reranking \in BOOLEAN :
        /\ request' = Some([endpoint |-> "/query", include_wiki |-> include_wiki,
                            use_reranking |-> use_reranking])
        /\ IF folder_kind = "missing"
           THEN /\ Answer(HTTPException(404, "Folder not found"))
                /\ events' = {}
                /\ UNCHANGED wiki_dirs
           ELSE IF include_wiki
           THEN \* lines 290-295: the WikiGenerator is constructed, and has no
                \* attribute query_wiki_rag: AttributeError, answered at 354-356
                /\ WikiCacheInit
                /\ events' = {"WikiGenerator"}
                /\ Answer(HTTPException(500, "Failed to process query"))
           ELSE IF ~DbPathExists(store)
           THEN /\ Answer(HTTPException(400, "Wiki not initialized for this folder. Please call /initWiki first."))
                /\ events' = {}
                /\ UNCHANGED wiki_dirs
           ELSE LET rag == RagLoadDatabase(store) IN
                /\ UNCHANGED wiki_dirs
                /\ IF rag.raised
                   THEN /\ events' = {"load_database"}
                        /\ Answer(HTTPException(500, "Failed to process query"))
                   ELSE \E outcome \in RagCallOutcomes :
                        /\ events' = {"load_database", "rag_call"}
                        /\ Answer(
                             IF outcome = "answer"
                             THEN Some([status_code |-> 200,
                                        retrieval_method |->
                                           IF use_reranking THEN "hybrid (semantic + BM25)"
                                           ELSE "semantic only"])
                             ELSE HTTPException(500, "Failed to process query"))

\* the response has gone to the client; db.pkl and the directories stay
NextRequest ==
    /\ pc = "responded"
    /\ pc' = "ready"
    /\ documents' = <<>>
    /\ provider' = <<>>
    /\ ret' = EmbedStart(<<>>)
    /\ collected' = <<>>
    /\ request' = None
    /\ events' = {}
    /\ response' = None
    /\ UNCHANGED <<files, indexVars, nameVars, wiki_dirs, wiki_gen,
                   rag_call, section, rankings, fused, diag_json, diag_mmd, sections_json, wiki_db>>

(***************************************************************************)
(* Specification SpecApi: requests on a folder, one after the other, the   *)
(* folder changing in between.                                             *)
(***************************************************************************)
NextApi == InitWiki \/ QueryWiki \/ NextRequest \/ FolderChanges

SpecApi == InitIndex /\ [][NextApi]_vars

(***************************************************************************)
(* Claims about the request handlers (SpecApi).                            *)
(***************************************************************************)
\* C12: a /query request with include_wiki false for a folder that exists
\* and has no db.pkl is answered 400 'not initialized', never 500; it
\* loads no RAG instance and creates neither db.pkl nor its directory
C12_NotInitialized ==
    [][(/\ pc = "ready"
        /\ request' # None
        /\ request'[1].endpoint = "/query"
        /\ ~request'[1].include_wiki
        /\ folder_kind # "missing"
        /\ store = None) =>
          /\ response' = HTTPException(400,
                "Wiki not initialized for this folder. Please call /initWiki first.")
          /\ events' = {}
          /\ store' = None
          /\ DbDirExists' = DbDirExists]_vars

\* such a request has been answered, with hybrid retrieval asked for
C12_Witness ==
    /\ pc = "responded"
    /\ request # None
    /\ request[1].endpoint = "/query"
    /\ ~request[1].include_wiki
    /\ request[1].use_reranking
    /\ folder_kind = "dir"
    /\ files # <<>>
    /\ store = None
    /\ response # None
    /\ response[1].status_code = 400

MaxDocs == 4

\* Config.MAX_RAG_CONTEXT_CHARS, from the environment (default "100000");
\* the model runs with a small configured value above the 100 of line 670
MAX_RAG_CONTEXT_CHARS == 130

\* Config.MAX_SOURCES, from the environment (default "40")
MAX_SOURCES == 2

\* Config.SOURCE_PREVIEW_LENGTH, from the environment (default "600")
SOURCE_PREVIEW_LENGTH == 2

\* "\n\n[... truncated for size limits ...]", line 671
TruncationMarker ==
    <<"\n", "\n", "[", ".", ".", ".", " ", "t", "r", "u", "n", "c", "a",
      "t", "e", "d", " ", "f", "o", "r", " ", "s", "i", "z", "e", " ", "l",
      "i", "m", "i", "t", "s", " ", ".", ".", ".", "]">>

Separator == <<"\n", "\n">>

\* line 664: f"Query: {r['query']}\nAnswer: {r['answer']}\nRationale: {r['rationale']}"
ContextPart(r) ==
    <<"Q", "u", "e", "r", "y", ":", " ">> \o r.query
    \o <<"\n", "A", "n", "s", "w", "e", "r", ":", " ">> \o r.answer
    \o <<"\n", "R", "a", "t", "i", "o", "n", "a", "l", "e", ":", " ">> \o r.rationale

\* lines 649-655: the result appended for an answer that is not None; an
\* answer without the attributes gives str(answer) and no rationale
RagResult(query, answer) ==
    [query |-> query,
     answer |-> answer.answer,
     rationale |-> IF "rationale" \in DOMAIN answer THEN answer.rationale ELSE <<>>]

\* line 671: part[:remaining] + "\n\n[... truncated for size limits ...]"
Truncate(part, remaining) == Prefix(part, remaining) \o TruncationMarker

\* lines 663-677: the loop over rag_results
RECURSIVE ContextParts(_, _, _)
ContextParts(rag_results, rag_context_parts, current_length) ==
    IF rag_results = <<>>
    THEN rag_context_parts
    ELSE LET part == ContextPart(Head(rag_results))
             part_length == Len(part)
         IN  IF current_length + part_length > MAX_RAG_CONTEXT_CHARS
             THEN LET remaining == MAX_RAG_CONTEXT_CHARS - current_length IN
                  IF remaining > 100
                  THEN Append(rag_context_parts, Truncate(part, remaining))
                  ELSE rag_context_parts
             ELSE ContextParts(Tail(rag_results),
                               Append(rag_context_parts, part),
                               current_length + part_length + 2)

\* "\n\n".join(parts)
RECURSIVE JoinParts(_)
JoinParts(parts) ==
    IF parts = <<>> THEN <<>>
    ELSE IF Len(parts) = 1 THEN parts[1]
    ELSE parts[1] \o Separator \o JoinParts(Tail(parts))

\* doc.meta_data.get('file_path', 'unknown') if hasattr(doc, 'meta_data')
\* else 'unknown', lines 685 and 692
FilePathOf(doc) ==
    IF "meta_data" \in DOMAIN doc /\ "file_path" \in DOMAIN doc.meta_data
    THEN doc.meta_data["file_path"]
    ELSE "unknown"

\* a path that is never taken as seen
NeverSeen(file_path, seen_paths) == FALSE

\* line 686: file_path not in seen_paths, negated
SeenBefore(file_path, seen_paths) == file_path \in seen_paths

\* lines 682-688
RECURSIVE UniqueDocs(_, _, _)
UniqueDocs(docs, seen_paths, unique_docs) ==
    IF docs = <<>>
    THEN unique_docs
    ELSE LET doc == Head(docs)
             file_path == FilePathOf(doc)
         IN  IF SeenBefore(file_path, seen_paths)
             THEN UniqueDocs(Tail(docs), seen_paths, unique_docs)
             ELSE UniqueDocs(Tail(docs), seen_paths \cup {file_path},
                             Append(unique_docs, doc))

\* unique_docs[:Const.MAX_SOURCES], line 693
SourceList(unique_docs) == Prefix(unique_docs, MAX_SOURCES)

\* lines 691-694: "Source {i+1} ({file_path}):\n{doc.text[:SOURCE_PREVIEW_LENGTH]}"
\* for each source, joined by "\n\n"; the number and the path are one
\* element each
SourceText(i, doc) ==
    <<"S", "o", "u", "r", "c", "e", " ", i, " ", "(", FilePathOf(doc), ")", ":", "\n">>
        \o Prefix(doc.text, SOURCE_PREVIEW_LENGTH)

\* _perform_section_rag_queries on the outcome of self.rag.call
perform_section_rag_queries(query, outcome) ==
    LET rag_results ==
            IF outcome.kind = "answer"
            THEN <<RagResult(query, outcome.answer)>>
            ELSE <<>>
        all_retrieved_docs ==
            IF outcome.kind = "answer" THEN outcome.retrieved_docs ELSE <<>>
        unique_docs == UniqueDocs(all_retrieved_docs, {}, <<>>)
        sources == SourceList(unique_docs)
    IN  [rag_context |-> JoinParts(ContextParts(rag_results, <<>>, 0)),
         sources |-> sources,
         retrieved_sources |->
            JoinParts([i \in 1..Len(sources) |-> SourceText(i, sources[i])]),
         all_retrieved_docs |-> all_retrieved_docs]

(***************************************************************************)
(* Specification SpecSection: _perform_section_rag_queries under every     *)
(* outcome of the retrieval call.                                          *)
(***************************************************************************)
\* the lengths of query, answer and rationale: a part below, at and above
\* the budget
QueryTexts == {Fill("q", n) : n \in {1, 2}}

\* the documents of a retrieval: the k-th has a text of its own, and a
\* file_path, a meta_data without one, or no meta_data
RetrievedDocs ==
    UNION {{[k \in 1..n |->
               IF shape[k] = "no meta_data"
               THEN [text |-> Fill("x", k)]
               ELSE IF shape[k] = "no file_path"
               THEN [text |-> Fill("x", k), meta_data |-> [extension |-> ".py"]]
               ELSE [text |-> Fill("x", k), meta_data |-> [file_path |-> shape[k]]]] :
             shape \in [1..n -> {"a.py", "b.py", "c.py", "unknown",
                                 "no file_path", "no meta_data"}]} :
           n \in 0..MaxDocs}

\* RAG.call(query, top_k, use_reranking): an answer with the documents
\* used, an answer of None, or an exception
RagCallResults ==
    LET AnswerTexts == {Fill("a", n) : n \in {0, MAX_RAG_CONTEXT_CHARS - 30,
                                              MAX_RAG_CONTEXT_CHARS - 29}}
        RationaleTexts == {Fill("r", n) : n \in {0, 1}}
    IN  {[kind |-> "raises"], [kind |-> "none"]}
        \cup {[kind |-> "answer", answer |-> [answer |-> a, rationale |-> r],
               retrieved_docs |-> docs] :
                a \in AnswerTexts, r \in RationaleTexts, docs \in RetrievedDocs}
        \cup {[kind |-> "answer", answer |-> [answer |-> a], retrieved_docs |-> <<>>] :
                a \in AnswerTexts}

InitSection ==
    /\ \E query \in QueryTexts, outcome \in RagCallResults :
          rag_call = Some([query |-> query, outcome |-> outcome])
    /\ pc = "ready"
    /\ documents = <<>>
    /\ provider = <<>>
    /\ ret = EmbedStart(<<>>)
    /\ files = <<>>
    /\ collected = <<>>
    /\ folder_kind = "dir"
    /\ store = None
    /\ stats = [status |-> "none"]
    /\ replaced = FALSE
    /\ cwd = <<"/">>
    /\ calls = <<>>
    /\ wiki_dirs = FALSE
    /\ wiki_gen = FALSE
    /\ request = None
    /\ section = None
    /\ rankings = None
    /\ fused = None
    /\ diag_json = None
    /\ diag_mmd = None
    /\ sections_json = None
    /\ wiki_db = None
    /\ events = {}
    /\ response = None

PerformSectionRagQueries ==
    /\ pc = "ready"
    /\ section' = Some(perform_section_rag_queries(rag_call[1].query, rag_call[1].outcome))
    /\ pc' = "section_done"
    /\ UNCHANGED <<embedVars, collectVars, indexVars, nameVars, wiki_dirs, wiki_gen,
                   request, rag_call, rankings, fused, diag_json, diag_mmd, sections_json, wiki_db, events, response>>

SpecSection == InitSection /\ [][PerformSectionRagQueries]_vars

(***************************************************************************)
(* Claims about the context and the sources of a section (SpecSection).    *)
(***************************************************************************)
\* C13: the context assembled under the character budget, rag_context,
\* never has more than MAX_RAG_CONTEXT_CHARS characters, the truncation
\* marker of a truncated part included
C13_ContextWithinBudget ==
    pc = "section_done" => Len(section[1].rag_context) <= MAX_RAG_CONTEXT_CHARS

\* the path a chunk counts under: its file_path, 'unknown' without one
PathKey(doc) ==
    IF "meta_data" \in DOMAIN doc
    THEN IF "file_path" \in DOMAIN doc.meta_data
         THEN doc.meta_data["file_path"] ELSE "unknown"
    ELSE "unknown"

\* C14: the source list has at most one chunk per file_path and at most
\* MAX_SOURCES entries, in retrieval order, and the chunk kept for a
\* file_path is the first of that path in the retrieval; chunks without a
\* file_path count as the one path 'unknown'
C14_Deduplicated ==
    pc = "section_done" =>
        LET sources == section[1].sources
            docs == section[1].all_retrieved_docs
            firsts == {k \in 1..Len(docs) :
                          \A m \in 1..(k - 1) : PathKey(docs[m]) # PathKey(docs[k])}
        IN  /\ Len(sources) <= MAX_SOURCES
            /\ \A i, j \in 1..Len(sources) :
                  i # j => PathKey(sources[i]) # PathKey(sources[j])
            /\ \A i \in 1..Len(sources) :
                  \E k \in firsts :
                     /\ sources[i] = docs[k]
                     /\ Cardinality({m \in firsts : m < k}) = i - 1
            /\ Len(sources) = IF Cardinality(firsts) < MAX_SOURCES
                              THEN Cardinality(firsts) ELSE MAX_SOURCES

\* a retrieval of more than MAX_SOURCES paths, with a second chunk of a
\* path and two chunks without file_path, of which the first is kept
C14_Witness ==
    /\ pc = "section_done"
    /\ LET sources == section[1].sources
           docs == section[1].all_retrieved_docs
       IN  /\ Len(docs) = 4
           /\ "meta_data" \notin DOMAIN docs[1]
           /\ PathKey(docs[2]) = "a.py"
           /\ "meta_data" \in DOMAIN docs[3]
           /\ PathKey(docs[3]) = "unknown"
           /\ PathKey(docs[4]) = "b.py"
           /\ sources = <<docs[1], docs[2]>>

(***************************************************************************)
(* The hybrid fusion of the retrieval facade (utils/rag.py), which         *)
(* _perform_section_rag_queries (wiki_diagram.py lines 639-644) and        *)
(* WikiRAGQuery._retrieve_codebase_docs (wiki_rag.py lines 137-141) call   *)
(* with use_reranking=True: Reciprocal Rank Fusion of the dense and the    *)
(* lexical ranking. A chunk is its position in the index; a score is a     *)
(* fraction.                                                               *)
(***************************************************************************)
\* most chunks in the index
MaxCorpus == 3
\* largest top_k asked for
MaxTopK == 3

\* the rank constant of the fusion
RANK_CONSTANT == 60

Zero == [num |-> 0, den |-> 1]
Plus(a, b) == [num |-> a.num * b.den + b.num * a.den, den |-> a.den * b.den]
Greater(a, b) == a.num * b.den > b.num * a.den
Same(a, b) == a.num * b.den = b.num * a.den

\* the 1-based position of the chunk in the ranking, 0 when it is absent
RankIn(ranking, chunk) ==
    IF \E k \in 1..Len(ranking) : ranking[k] = chunk
    THEN CHOOSE k \in 1..Len(ranking) : ranking[k] = chunk
    ELSE 0

\* what one chunk at that rank of one ranking gets
RankScore(rank) == [num |-> 1, den |-> RANK_CONSTANT + rank]

\* a ranking's contribution to the chunk: 1 / (rank_constant + rank), 0 for
\* a chunk absent from the ranking
Contribution(ranking, chunk) ==
    IF RankIn(ranking, chunk) = 0 THEN Zero ELSE RankScore(RankIn(ranking, chunk))

\* a fused score that is the better of the two contributions
BestContribution(dense, lexical, chunk) ==
    IF Greater(Contribution(dense, chunk), Contribution(lexical, chunk))
    THEN Contribution(dense, chunk)
    ELSE Contribution(lexical, chunk)

\* the fused score: the sum of the contributions of both rankings
FusedScore(dense, lexical, chunk) ==
    Plus(Contribution(dense, chunk), Contribution(lexical, chunk))

\* the best (lowest) rank of the chunk in either ranking
BestRank(dense, lexical, chunk) ==
    LET d == RankIn(dense, chunk)
        l == RankIn(lexical, chunk)
    IN  IF d = 0 THEN l ELSE IF l = 0 THEN d ELSE IF d < l THEN d ELSE l

\* a comes before b in the fused ranking: higher fused score, then better
\* best rank, then earlier insertion
ComesBefore(dense, lexical, a, b) ==
    LET sa == FusedScore(dense, lexical, a)
        sb == FusedScore(dense, lexical, b)
        ra == BestRank(dense, lexical, a)
        rb == BestRank(dense, lexical, b)
    IN  \/ Greater(sa, sb)
        \/ Same(sa, sb) /\ ra < rb
        \/ Same(sa, sb) /\ ra = rb /\ a < b

\* the chunks of either ranking, sorted
FusedRanking(dense, lexical) ==
    LET candidates == SeqSet(dense) \cup SeqSet(lexical)
        place(c) == 1 + Cardinality({b \in candidates : ComesBefore(dense, lexical, b, c)})
    IN  [i \in 1..Cardinality(candidates) |->
            CHOOSE c \in candidates : place(c) = i]

\* a cut that keeps one chunk less
CutShort(ranking, top_k) == Prefix(ranking, top_k - 1)

\* the top top_k of the fused ranking
TopK(ranking, top_k) == Prefix(ranking, top_k)

\* fuse(dense_ranking, lexical_ranking, top_k)
Fuse(dense, lexical, top_k) == TopK(FusedRanking(dense, lexical), top_k)

(***************************************************************************)
(* Specification SpecFusion: the fusion of every dense ranking (the top_k  *)
(* of the chunks, all of them when there are fewer) with every lexical     *)
(* ranking (the chunks that match the query, best first).                  *)
(***************************************************************************)
\* the sequences of distinct chunks of 1..n that are m long
Rankings(n, m) ==
    {r \in [1..m -> 1..n] : \A i, j \in 1..m : i # j => r[i] # r[j]}

Min(a, b) == IF a < b THEN a ELSE b

RankingInputs ==
    UNION {{[corpus |-> n, top_k |-> k, dense |-> d, lexical |-> l] :
              d \in Rankings(n, Min(k, n)),
              l \in UNION {Rankings(n, m) : m \in 0..n}} :
           n \in 1..MaxCorpus, k \in 1..MaxTopK}

InitFusion ==
    /\ \E input \in RankingInputs : rankings = Some(input)
    /\ fused = None
    /\ diag_json = None
    /\ diag_mmd = None
    /\ sections_json = None
    /\ wiki_db = None
    /\ pc = "ready"
    /\ rag_call = None
    /\ section = None
    /\ documents = <<>>
    /\ provider = <<>>
    /\ ret = EmbedStart(<<>>)
    /\ files = <<>>
    /\ collected = <<>>
    /\ folder_kind = "dir"
    /\ store = None
    /\ stats = [status |-> "none"]
    /\ replaced = FALSE
    /\ cwd = <<"/">>
    /\ calls = <<>>
    /\ wiki_dirs = FALSE
    /\ wiki_gen = FALSE
    /\ request = None
    /\ events = {}
    /\ response = None

\* the fusion step of RAG.call(query, top_k, use_reranking=True)
FuseRankings ==
    /\ pc = "ready"
    /\ LET in == rankings[1] IN
       fused' = Some([scores |-> [c \in 1..in.corpus |->
                                     FusedScore(in.dense, in.lexical, c)],
                      ranking |-> FusedRanking(in.dense, in.lexical),
                      top |-> Fuse(in.dense, in.lexical, in.top_k)])
    /\ pc' = "fused"
    /\ UNCHANGED <<embedVars, collectVars, indexVars, nameVars, wiki_dirs, wiki_gen,
                   request, rag_call, section, rankings, diag_json, diag_mmd, sections_json, wiki_db, events, response>>

SpecFusion == InitFusion /\ [][FuseRankings]_vars

(***************************************************************************)
(* Claims about the fusion (SpecFusion).                                   *)
(***************************************************************************)
\* the chunk is in the ranking
InRanking(ranking, chunk) == \E k \in 1..Len(ranking) : ranking[k] = chunk

\* C15: a chunk that is in both rankings has a strictly higher fused score
\* than a chunk that is in one ranking only gets at the rank the first
\* chunk holds in that ranking, and than every chunk of the same fusion
\* that is in one ranking only, at one of the two ranks of the first chunk
C15_FusionMonotone ==
    pc = "fused" =>
        LET in == rankings[1] IN
        \A a \in 1..in.corpus :
            (InRanking(in.dense, a) /\ InRanking(in.lexical, a)) =>
                /\ \A k \in {RankIn(in.dense, a), RankIn(in.lexical, a)} :
                      Greater(fused[1].scores[a],
                              [num |-> 1, den |-> RANK_CONSTANT + k])
                /\ \A b \in 1..in.corpus :
                      LET only_dense == InRanking(in.dense, b) /\ ~InRanking(in.lexical, b)
                          only_lexical == ~InRanking(in.dense, b) /\ InRanking(in.lexical, b)
                          rank_b == IF only_dense THEN RankIn(in.dense, b)
                                    ELSE RankIn(in.lexical, b)
                      IN  ((only_dense \/ only_lexical)
                           /\ rank_b \in {RankIn(in.dense, a), RankIn(in.lexical, a)})
                          => Greater(fused[1].scores[a], fused[1].scores[b])

\* chunk 1 is second in the dense and first in the lexical ranking, chunk 2
\* is first in the dense ranking and not in the lexical one
C15_Witness ==
    /\ pc = "fused"
    /\ rankings[1].dense = <<2, 1>>
    /\ rankings[1].lexical = <<1, 3>>
    /\ Greater(fused[1].scores[1], fused[1].scores[2])
    /\ Greater(fused[1].scores[2], fused[1].scores[3])

\* the chunk ranked first in the lexical ranking is not in the dense one
LexicalTopOnly ==
    /\ rankings[1].lexical # <<>>
    /\ ~InRanking(rankings[1].dense, rankings[1].lexical[1])

\* C16 as claimed: for every pair of rankings and every top_k >= 1, a chunk
\* that is first in the lexical ranking and absent from the dense top_k
\* ranking is in the fused top_k result
C16_LexicalTopIncluded ==
    (pc = "fused" /\ LexicalTopOnly) =>
        InRanking(fused[1].top, rankings[1].lexical[1])

\* some chunk at rank 2 or below of the dense ranking is not in the
\* lexical ranking
DenseOnlyBelowTop ==
    \E k \in 2..Len(rankings[1].dense) :
        ~InRanking(rankings[1].lexical, rankings[1].dense[k])

\* C16, amended: a chunk that is first in the lexical ranking and absent
\* from the dense top_k ranking is in the fused top_k result when some
\* chunk at rank 2 or below of the dense ranking is absent from the lexical
\* ranking; in every case it is among the first top_k + 1 fused chunks
C16_LexicalTopIncludedIfRoom ==
    (pc = "fused" /\ LexicalTopOnly) =>
        LET top1 == rankings[1].lexical[1] IN
        /\ DenseOnlyBelowTop => InRanking(fused[1].top, top1)
        /\ RankIn(fused[1].ranking, top1) \in 1..(rankings[1].top_k + 1)

\* top_k = 2: the first dense chunk is second in the lexical ranking, the
\* second dense chunk is dense only, and the lexical top is the last of the
\* fused top 2
C16_Witness ==
    /\ pc = "fused"
    /\ rankings[1].top_k = 2
    /\ rankings[1].dense = <<1, 2>>
    /\ rankings[1].lexical = <<3, 1>>
    /\ fused[1].top = <<1, 3>>

(***************************************************************************)
(* WikiGenerator, wiki_generator.py lines 148-179, over the index store.   *)
(***************************************************************************)
\* WikiGenerator(root_path, data_dir), lines 151-164: the database name and
\* path of the folder, and a WikiCache on that path
NewWikiGenerator ==
    /\ pc = "ready"
    /\ ~wiki_gen
    /\ WikiCacheInit
    /\ wiki_gen' = TRUE
    /\ UNCHANGED <<pc, embedVars, collectVars, indexVars, nameVars,
                   request, rag_call, section, rankings, fused, diag_json, diag_mmd, sections_json, wiki_db, events, response>>

\* WikiGenerator.ensure_database(), lines 166-179; an exception of
\* process_folder is the caller's
EnsureDatabase ==
    /\ pc = "ready"
    /\ wiki_gen
    /\ request' = Some([endpoint |-> "ensure_database"])
    /\ UNCHANGED <<wiki_dirs, wiki_gen, rag_call, section, rankings, fused, diag_json, diag_mmd, sections_json, wiki_db, response>>
    \* line 168: os.path.exists(self.db_path), and db_path is the database
    \* directory (line 162)
    /\ IF ~DbDirExists
       THEN /\ process_folder
            /\ events' = {"process_folder"}
       ELSE /\ pc' = "ensured"
            /\ events' = {}
            /\ UNCHANGED <<embedVars, collectVars, indexVars, nameVars>>

\* the method has returned or raised; the generator and the files stay
WikiReturn ==
    /\ pc \in {"ensured", "indexed", "error"}
    /\ pc' = "ready"
    /\ documents' = <<>>
    /\ provider' = <<>>
    /\ ret' = EmbedStart(<<>>)
    /\ collected' = <<>>
    /\ stats' = [status |-> "none"]
    /\ replaced' = FALSE
    /\ request' = None
    /\ events' = {}
    /\ UNCHANGED <<files, folder_kind, store, nameVars, wiki_dirs, wiki_gen,
                   rag_call, section, rankings, fused, diag_json, diag_mmd, sections_json, wiki_db, response>>

(***************************************************************************)
(* Specification SpecWiki: a WikiGenerator on a folder, which may have     *)
(* been indexed by process_folder before or not.                           *)
(***************************************************************************)
NextWiki ==
    \/ ProcessFolder
    \/ Forget
    \/ FolderChanges
    \/ NewWikiGenerator
    \/ EnsureDatabase
    \/ WikiReturn

SpecWiki == InitIndex /\ [][NextWiki]_vars

(***************************************************************************)
(* Claims about the WikiGenerator (SpecWiki).                              *)
(***************************************************************************)
\* C17: ensure_database, called on a WikiGenerator constructed for a folder
\* that has never been indexed, runs process_folder, and db.pkl of the
\* folder exists afterwards
C17_EnsureDatabaseCreates ==
    [][(/\ pc = "ready"
        /\ request' # None
        /\ request'[1].endpoint = "ensure_database"
        /\ store = None
        /\ folder_kind = "dir"
        /\ collect_documents(files, Root) # <<>>) =>
          /\ "process_folder" \in events'
          /\ pc' # "error" => store' # None]_vars

(***************************************************************************)
(* Mermaid code and its parser, utils/mermaid_parser.py.  A Mermaid code   *)
(* is a sequence of lines, and a line is one of: a first line of a         *)
(* diagram type ("flowchart TD", "gantt", "graph TD"), an edge             *)
(* "A --> B", a node definition "C[L]", an empty line, a comment           *)
(* "%% note".  Identifiers and labels hold word characters only.           *)
(***************************************************************************)
MaxLines == 3

Line(kind, a, b) == [kind |-> kind, a |-> a, b |-> b]

\* a line that is its kind only: "flowchart", "gantt", "graph", "blank",
\* "comment"
Only(kind) == Line(kind, "", "")
EdgeLine(source, target) == Line("edge", source, target)
NodeLine(node_id, label) == Line("node", node_id, label)

MermaidLines ==
    {Only("flowchart"), Only("gantt"), Only("graph"), Only("blank"), Only("comment"),
     EdgeLine("A", "B"), EdgeLine("B", "C"), NodeLine("C", "L")}

MermaidCodes == UNION {[1..n -> MermaidLines] : n \in 0..MaxLines}

\* re.findall(r'\w+', line)
Tokens(line) ==
    CASE line.kind = "flowchart" -> <<"flowchart", "TD">>
      [] line.kind = "gantt" -> <<"gantt">>
      [] line.kind = "graph" -> <<"graph", "TD">>
      [] line.kind = "edge" -> <<line.a, line.b>>
      [] line.kind = "node" -> <<line.a, line.b>>
      [] line.kind = "comment" -> <<"note">>
      [] OTHER -> <<>>

\* str.lower() of a token
Lower(token) ==
    CASE token = "TD" -> "td"
      [] token = "A" -> "a"
      [] token = "B" -> "b"
      [] token = "C" -> "c"
      [] token = "L" -> "l"
      [] OTHER -> token

\* str.strip() on the lines: the empty lines at both ends go
RECURSIVE StripLines(_)
StripLines(code) ==
    IF code # <<>> /\ Head(code) = Only("blank") THEN StripLines(Tail(code))
    ELSE IF code # <<>> /\ code[Len(code)] = Only("blank")
    THEN StripLines(SubSeq(code, 1, Len(code) - 1))
    ELSE code

\* mermaid_code.strip().split('\n'): the split of an empty string is [''],
\* one empty line
StripSplit(code) ==
    LET stripped == StripLines(code) IN
    IF stripped = <<>> THEN <<Only("blank")>> ELSE stripped

MermaidNode(node_id, label, shape) == [id |-> node_id, label |-> label, shape |-> shape]

MermaidEdge(source, target, label, edge_type) ==
    [source |-> source, target |-> target, label |-> label, type |-> edge_type,
     key |-> <<source, "->", target>>]

\* self.nodes[node_id] = node, when node_id is not in self.nodes yet
AddNode(nodes, node) ==
    IF node.id \in DOMAIN nodes THEN nodes ELSE nodes @@ (node.id :> node)

NoNodes == [n \in {} |-> n]

RECURSIVE ParseGraph(_, _, _)
ParseGraph(lines, nodes, edges) ==
    IF lines = <<>> THEN [nodes |-> nodes, edges |-> edges]
    ELSE LET line == Head(lines) IN
         IF line.kind \in {"blank", "comment"}
         THEN ParseGraph(Tail(lines), nodes, edges)
         ELSE IF line.kind = "edge"
         THEN ParseGraph(Tail(lines),
                         AddNode(AddNode(nodes, MermaidNode(line.a, line.a, "rectangle")),
                                 MermaidNode(line.b, line.b, "rectangle")),
                         Append(edges, MermaidEdge(line.a, line.b, None, "-->")))
         ELSE IF line.kind = "node"
         \* a label of the model has no quote, no character to sanitize and
         \* none of the shapes' brackets: _extract_label leaves it as it is
         \* and _detect_shape answers "rectangle"
         THEN ParseGraph(Tail(lines),
                         AddNode(nodes, MermaidNode(line.a, line.b, "rectangle")),
                         edges)
         ELSE ParseGraph(Tail(lines), nodes, edges)

RECURSIVE AddTokens(_, _)
AddTokens(tokens, nodes) ==
    IF tokens = <<>> THEN nodes
    ELSE LET token == Head(tokens) IN
         AddTokens(Tail(tokens),
                   IF Lower(token) \notin {"graph", "td", "lr", "tb"}
                   THEN AddNode(nodes, MermaidNode(token, token, "rectangle"))
                   ELSE nodes)

RECURSIVE ParseGeneric(_, _)
ParseGeneric(lines, nodes) ==
    IF lines = <<>> THEN [nodes |-> nodes, edges |-> <<>>]
    ELSE LET line == Head(lines) IN
         IF line.kind \in {"blank", "comment"}
         THEN ParseGeneric(Tail(lines), nodes)
         ELSE ParseGeneric(Tail(lines), AddTokens(Tokens(line), nodes))

\* the type parse() detects from the first line; None for the others
DiagramType(code) ==
    IF StripSplit(code)[1].kind = "flowchart" THEN Some("flowchart") ELSE None

\* MermaidDiagramParser(mermaid_code).parse()
Parse(code) ==
    LET lines == StripSplit(code) IN
    IF DiagramType(code) = Some("flowchart")
    THEN ParseGraph(Tail(lines), NoNodes, <<>>)
    ELSE ParseGeneric(Tail(lines), NoNodes)

\* validate_mermaid_syntax(mermaid_code): <<is_valid, message>>
validate_mermaid_syntax(mermaid_code) ==
    LET lines == StripSplit(mermaid_code)
        parsed == Parse(mermaid_code)
    IN  \* the first line starts with one of the valid types
        IF lines[1].kind \notin {"flowchart", "gantt"}
        THEN <<FALSE, "Invalid diagram type">>
        ELSE IF parsed.nodes = NoNodes /\ parsed.edges = <<>>
        THEN <<FALSE, "No nodes or edges found in diagram">>
        ELSE <<TRUE, "Valid Mermaid syntax">>

\* parse_mermaid_diagram(mermaid_code)
parse_mermaid_diagram(mermaid_code) ==
    LET parsed == Parse(mermaid_code) IN
    [diagram_type |-> DiagramType(mermaid_code),
     nodes |-> parsed.nodes,
     edges |-> parsed.edges,
     node_list |-> DOMAIN parsed.nodes,
     edge_list |-> {parsed.edges[k].key : k \in 1..Len(parsed.edges)}]

(***************************************************************************)
(* The cached diagram of one section: diag_<section_id>.json and           *)
(* diag_<section_id>.mmd in the diagrams directory of the wiki cache.      *)
(***************************************************************************)
SectionId == "overview"

\* the result of _process_diagram_response for a valid Mermaid code, as
\* _cache_diagram_result writes it to diag_<section_id>.json
SectionDiagram(mermaid_code) ==
    LET parsed == parse_mermaid_diagram(mermaid_code) IN
    [status |-> "success",
     section_id |-> SectionId,
     diagram |-> [mermaid_code |-> mermaid_code,
                  is_valid |-> TRUE,
                  diagram_type |-> parsed.diagram_type],
     nodes |-> [n \in parsed.node_list |->
                   [label |-> parsed.nodes[n].label,
                    shape |-> parsed.nodes[n].shape,
                    explanation |-> ""]],
     edges |-> [k \in parsed.edge_list |->
                   [source |-> k[1], target |-> k[3], label |-> None,
                    explanation |-> ""]],
     cached |-> FALSE]

\* the codes of the diagrams generated before the requests
GeneratedCodes ==
    {<<Only("flowchart"), EdgeLine("A", "B")>>,
     <<Only("flowchart"), EdgeLine("A", "B"), NodeLine("C", "L")>>,
     <<Only("gantt"), NodeLine("C", "L")>>}

\* _update_diagram_sync writing the .mmd file before the validation
update_diagram_sync_writes_first(json, mmd, mermaid_code) ==
    IF ~validate_mermaid_syntax(mermaid_code)[1]
    THEN [result |-> [status |-> "error",
                      error |-> <<"Invalid Mermaid syntax: ",
                                  validate_mermaid_syntax(mermaid_code)[2]>>,
                      mermaid_code |-> mermaid_code],
          json |-> json, mmd |-> Some(mermaid_code)]
    ELSE IF json = None
    THEN [result |-> [status |-> "error", error |-> <<"Diagram not found: ", SectionId>>],
          json |-> json, mmd |-> Some(mermaid_code)]
    ELSE LET existing_data ==
                 [json[1] EXCEPT !.diagram.mermaid_code = mermaid_code,
                                 !.diagram.is_valid = TRUE,
                                 !.cached = FALSE]
         IN  [result |-> existing_data,
              json |-> Some(existing_data), mmd |-> Some(mermaid_code)]

\* _update_diagram_sync(root_path, section_id, mermaid_code) on the two
\* files of the section: the result it returns and the files it leaves
update_diagram_sync(json, mmd, mermaid_code) ==
    IF ~validate_mermaid_syntax(mermaid_code)[1]
    THEN [result |-> [status |-> "error",
                      error |-> <<"Invalid Mermaid syntax: ",
                                  validate_mermaid_syntax(mermaid_code)[2]>>,
                      mermaid_code |-> mermaid_code],
          json |-> json, mmd |-> mmd]
    ELSE IF json = None
    THEN [result |-> [status |-> "error", error |-> <<"Diagram not found: ", SectionId>>],
          json |-> json, mmd |-> mmd]
    ELSE LET existing_data ==
                 [json[1] EXCEPT !.diagram.mermaid_code = mermaid_code,
                                 !.diagram.is_valid = TRUE,
                                 !.cached = FALSE]
         IN  [result |-> existing_data,
              json |-> Some(existing_data), mmd |-> Some(mermaid_code)]

\* POST /updateDiagram, api.py lines 734-818
UpdateDiagram ==
    /\ pc = "ready"
    /\ \E mermaid_code \in MermaidCodes :
        /\ request' = Some([endpoint |-> "/updateDiagram", mermaid_code |-> mermaid_code])
        /\ IF folder_kind = "missing"
           THEN /\ Answer(HTTPException(404, "Folder not found"))
                /\ UNCHANGED <<wiki_dirs, diag_json, diag_mmd>>
           ELSE LET out == update_diagram_sync(diag_json, diag_mmd, mermaid_code) IN
                /\ WikiCacheInit
                /\ diag_json' = out.json
                /\ diag_mmd' = out.mmd
                /\ Answer(Some([status_code |-> 200, body |-> out.result]))
    /\ events' = {}
    /\ UNCHANGED <<embedVars, collectVars, indexVars, nameVars, wiki_gen,
                   rag_call, section, rankings, fused, sections_json, wiki_db>>

(***************************************************************************)
(* Specification SpecDiagram: one /updateDiagram request on a section      *)
(* whose diagram was generated before, or was not.                         *)
(***************************************************************************)
InitDiagram ==
    /\ pc = "ready"
    /\ documents = <<>>
    /\ provider = <<>>
    /\ ret = EmbedStart(<<>>)
    /\ files = <<>>
    /\ collected = <<>>
    /\ folder_kind = "dir"
    /\ store = None
    /\ stats = [status |-> "none"]
    /\ replaced = FALSE
    /\ cwd = <<"/">>
    /\ calls = <<>>
    /\ sections_json = None
    /\ wiki_db = None
    /\ \/ /\ diag_json = None
          /\ diag_mmd = None
       \/ \E mermaid_code \in GeneratedCodes :
             /\ diag_json = Some(SectionDiagram(mermaid_code))
             /\ diag_mmd = Some(mermaid_code)
    /\ wiki_dirs \in IF diag_json = None THEN {FALSE, TRUE} ELSE {TRUE}
    /\ wiki_gen = FALSE
    /\ request = None
    /\ rag_call = None
    /\ section = None
    /\ rankings = None
    /\ fused = None
    /\ events = {}
    /\ response = None

NextDiagram == UpdateDiagram \/ FolderChanges

SpecDiagram == InitDiagram /\ [][NextDiagram]_vars

(***************************************************************************)
(* Claims about /updateDiagram (SpecDiagram).                              *)
(***************************************************************************)
\* C19: when the submitted Mermaid code fails validate_mermaid_syntax, or
\* when diag_<section_id>.json does not exist, _update_diagram_sync returns
\* a result of status "error" and leaves diag_<section_id>.json and
\* diag_<section_id>.mmd as they were, absent or with their content
C19_ErrorChangesNothing ==
    [][(/\ pc = "ready"
        /\ request' # None
        /\ request'[1].endpoint = "/updateDiagram"
        /\ folder_kind # "missing"
        /\ \/ ~validate_mermaid_syntax(request'[1].mermaid_code)[1]
           \/ diag_json = None) =>
          /\ response'[1].status_code = 200
          /\ response'[1].body.status = "error"
          /\ diag_json' = diag_json
          /\ diag_mmd' = diag_mmd]_vars

\* a code that is not valid was submitted for a section whose diagram is
\* cached, and the request was answered with the error
C19_Witness ==
    /\ pc = "responded"
    /\ request # None
    /\ request[1].endpoint = "/updateDiagram"
    /\ ~validate_mermaid_syntax(request[1].mermaid_code)[1]
    /\ request[1].mermaid_code # <<>>
    /\ StripSplit(request[1].mermaid_code)[1].kind \in {"flowchart", "gantt"}
    /\ diag_json # None
    /\ diag_mmd # None
    /\ response[1].status_code = 200
    /\ response[1].body.status = "error"

\* C20: after a successful /updateDiagram, the nodes and the edges stored in
\* diag_<section_id>.json are those of the Mermaid code that was saved
C20_StructureReparsed ==
    (/\ pc = "responded"
     /\ request # None
     /\ request[1].endpoint = "/updateDiagram"
     /\ response[1].status_code = 200
     /\ response[1].body.status = "success") =>
        LET parsed == parse_mermaid_diagram(request[1].mermaid_code) IN
        /\ diag_json # None
        /\ diag_json[1].diagram.mermaid_code = request[1].mermaid_code
        /\ DOMAIN diag_json[1].nodes = parsed.node_list
        /\ DOMAIN diag_json[1].edges = parsed.edge_list

(***************************************************************************)
(* The wiki cache of one repository, as the methods of                     *)
(* WikiDiagramGenerator (utils/wiki_diagram.py) and of WikiRAGQuery        *)
(* (utils/wiki_rag.py) read and write it.  A call is one step: request     *)
(* holds the call and what the retrieval and the model answered to it,     *)
(* events the calls it made, in their order, and response what it          *)
(* returned or raised.                                                     *)
(***************************************************************************)
MaxWikiDocs == 2

\* one call made by a method, with the argument that matters
Event(call, arg) == [call |-> call, arg |-> arg]

\* the method returns result
Returns(result) == Some([raised |-> FALSE, body |-> result])

\* the method raises: an exception of the model client, or the error of
\* the statement that failed, goes to the caller
Raises(exception) == Some([raised |-> TRUE, body |-> [error |-> exception]])

\* the sequences of up to n elements of S
SeqUpTo(S, n) == UNION {[1..k -> S] : k \in 0..n}

\* lines 103-120: the documents that score above 0 for the query, the
\* highest score first, equal scores in the order of the database, the
\* first top_k of them
RECURSIVE retrieve_wiki_docs(_, _)
retrieve_wiki_docs(wiki_docs, top_k) ==
    LET scored == SelectSeq(wiki_docs, LAMBDA d : d.score > 0) IN
    IF scored = <<>> \/ top_k = 0 THEN <<>>
    ELSE LET best == CHOOSE i \in 1..Len(scored) :
                         /\ \A j \in 1..Len(scored) : scored[j].score <= scored[i].score
                         /\ \A j \in 1..(i - 1) : scored[j].score < scored[i].score
         IN  <<scored[best]>>
             \o retrieve_wiki_docs(SubSeq(scored, 1, best - 1)
                                   \o SubSeq(scored, best + 1, Len(scored)),
                                 top_k - 1)

\* _retrieve_codebase_docs taking a failed rag.call for a retrieval
\* without result
retrieve_codebase_docs_as_empty(rag, top_k) ==
    IF rag.kind = "raises"
    THEN [docs |-> <<>>, context |-> [text |-> "No relevant codebase snippets found.",
                                      docs |-> <<>>]]
    ELSE IF rag.docs = <<>>
    THEN [docs |-> <<>>, context |-> [text |-> "No relevant codebase snippets found.",
                                      docs |-> <<>>]]
    ELSE [docs |-> rag.docs, context |-> [text |-> "", docs |-> Prefix(rag.docs, top_k)]]

\* _retrieve_codebase_docs, lines 134-154: (codebase_docs, codebase_context)
retrieve_codebase_docs(rag, top_k) ==
    IF rag.kind = "raises"
    THEN [docs |-> <<>>, context |-> [text |-> "Codebase context unavailable.",
                                      docs |-> <<>>]]
    ELSE IF rag.docs = <<>>
    THEN [docs |-> <<>>, context |-> [text |-> "No relevant codebase snippets found.",
                                      docs |-> <<>>]]
    ELSE [docs |-> rag.docs, context |-> [text |-> "", docs |-> Prefix(rag.docs, top_k)]]

\* query_wiki_rag(query, top_k), lines 33-101, on the wiki database db,
\* when rag.call and the generator answer rag and llm
query_wiki_rag(db, top_k, rag, llm) ==
    IF db = None
    THEN [events |-> <<>>,
          response |-> Returns([status |-> "error",
                                error |-> "No wiki content has been generated yet."])]
    ELSE LET wiki_docs == IF db[1].kind = "docs" THEN db[1].docs ELSE <<>>
             wiki_retrieved_docs == retrieve_wiki_docs(wiki_docs, top_k)
             wiki_context ==
                 IF wiki_retrieved_docs = <<>>
                 THEN [text |-> "No relevant wiki content found.", docs |-> <<>>]
                 ELSE [text |-> "", docs |-> wiki_retrieved_docs]
             codebase == retrieve_codebase_docs(rag, top_k)
             no_context == [wiki |-> <<>>, codebase |-> <<>>]
             calls_made == <<Event("LocalDB.load_state", no_context),
                             Event("rag.call", no_context),
                             Event("_generate_answer",
                                   [wiki |-> wiki_context,
                                    codebase |-> codebase.context])>>
         IN  IF wiki_docs = <<>>
             THEN [events |-> <<Event("LocalDB.load_state", no_context)>>,
                   response |-> Returns([status |-> "error",
                                         error |-> "Wiki database is empty."])]
             ELSE IF llm.kind = "raises"
             THEN [events |-> calls_made, response |-> Raises("model.call")]
             ELSE [events |-> calls_made,
                   response |-> Returns([status |-> "success",
                                         answer |-> llm.content,
                                         wiki_doc_count |-> Len(wiki_docs),
                                         wiki_retrieved |-> Len(wiki_retrieved_docs),
                                         codebase_retrieved |->
                                             Len(Prefix(codebase.docs, top_k))])]

\* what rag.call answers to a query: the documents it retrieved, or an
\* exception
RagAnswers ==
    {[kind |-> "raises", docs |-> <<>>]}
    \cup {[kind |-> "answer", docs |-> docs] : docs \in SeqUpTo({"main.py", "api.py"}, 2)}

\* WikiRAGQuery.query_wiki_rag(query, top_k)
QueryWikiRag ==
    /\ pc = "ready"
    /\ \E top_k \in 1..2, rag \in RagAnswers,
          llm \in {[kind |-> "raises", content |-> ""],
                   [kind |-> "answer", content |-> "an answer"]} :
          LET out == query_wiki_rag(wiki_db, top_k, rag, llm) IN
          /\ request' = Some([endpoint |-> "query_wiki_rag", top_k |-> top_k,
                              rag |-> rag, llm |-> llm])
          /\ events' = out.events
          /\ response' = out.response
    /\ UNCHANGED <<pc, embedVars, collectVars, indexVars, nameVars, wiki_dirs, wiki_gen,
                   rag_call, section, rankings, fused, diag_json, diag_mmd,
                   sections_json, wiki_db>>

(***************************************************************************)
(* identify_diagram_sections, wiki_diagram.py lines 44-253.  A section is  *)
(* a dict of strings (a function in the model); "null" stands for the      *)
(* JSON null.  What the model answers to an iteration is one of: an        *)
(* exception of the client ("raises"), a text that is no JSON              *)
(* ("unparseable"), a JSON list ("list"), a JSON object without the key    *)
(* 'sections' ("object"), a JSON object with it ("sections").              *)
(***************************************************************************)
MaxSections == 2

\* not section[field]
Falsy(value) == value \in {"", "null"}

ValidSection ==
    [section_id |-> "overview", section_title |-> "Overview",
     section_description |-> "How the parts fit", diagram_type |-> "flowchart"]

\* the sections a model may answer: a valid one, one with an empty title,
\* one of a diagram type that is not in the list
AnsweredSections ==
    {ValidSection,
     [ValidSection EXCEPT !.section_id = "api", !.section_title = ""],
     [ValidSection EXCEPT !.section_id = "plan", !.diagram_type = "gantt"]}

LlmSectionAnswers ==
    {[kind |-> k, sections |-> <<>>] : k \in {"raises", "unparseable", "list", "object"}}
    \cup {[kind |-> "sections", sections |-> ss] :
            ss \in SeqUpTo(AnsweredSections, MaxSections)}

\* _validate_section accepting every diagram type
validate_section_any_type(sec) ==
    \A field \in {"section_id", "section_title", "section_description", "diagram_type"} :
        field \in DOMAIN sec /\ ~Falsy(sec[field])

\* _validate_section(section, iteration_name), lines 255-278
validate_section(sec) ==
    /\ \A field \in {"section_id", "section_title", "section_description", "diagram_type"} :
          field \in DOMAIN sec /\ ~Falsy(sec[field])
    /\ sec["diagram_type"] \in
          {"flowchart", "sequence", "class", "stateDiagram", "erDiagram"}

\* _call_llm_for_sections(prompt, iteration_name, return_full), lines
\* 280-338, when the model answers llm: the exception it lets through
\* ("" for none) and the value it returns, which is a list of sections
\* when return_full is False and None, the list or the object otherwise
call_llm_for_sections(llm, return_full) ==
    LET valid_sections == SelectSeq(llm.sections, validate_section)
        failed == [raised |-> "",
                   value |-> [kind |-> IF return_full THEN "None" ELSE "sections",
                              sections |-> <<>>]]
    IN  CASE llm.kind = "raises" ->
               [raised |-> "model.call", value |-> [kind |-> "None", sections |-> <<>>]]
          [] llm.kind = "unparseable" -> failed
          [] llm.kind = "list" ->
               IF return_full
               THEN [raised |-> "", value |-> [kind |-> "list", sections |-> <<>>]]
               ELSE [raised |-> "AttributeError",
                     value |-> [kind |-> "None", sections |-> <<>>]]
          [] llm.kind = "object" ->
               [raised |-> "",
                value |-> [kind |-> IF return_full THEN "object" ELSE "sections",
                           sections |-> <<>>]]
          [] OTHER ->
               IF valid_sections = <<>> /\ llm.sections # <<>>
               THEN failed
               ELSE [raised |-> "", value |-> [kind |-> "sections",
                                               sections |-> valid_sections]]

\* the answer of an iteration that was not called
NotCalled == [kind |-> "not called", sections |-> <<>>]

\* the calls of iteration 1, of iterations 1 and 2, and of all three
IterationEvents(n) ==
    LET first == [k \in 1..5 |-> Event("rag.call", "page query")]
                 \o <<Event("llm", "iteration 1")>>
        second == <<Event("rag.call", "comprehensive"), Event("llm", "iteration 2")>>
    IN  CASE n = 1 -> first
          [] n = 2 -> first \o second
          [] OTHER -> first \o second \o <<Event("llm", "iteration 3")>>

\* a response taken for usable whatever _call_llm_for_sections returned
HasSectionsAlways(value) == TRUE

\* lines 194 and 218: not (not response or 'sections' not in response)
HasSections(value) == value.kind = "sections"

\* identify_diagram_sections(language, use_cache) on the sections cache
\* file, when every rag.call answers as rag ("none" when self.rag is None)
\* and the model answers llm[k] to iteration k
identify_diagram_sections(cache, use_cache, rag, llm) ==
    LET rough == call_llm_for_sections(llm[1], FALSE)
        iteration2 == call_llm_for_sections(llm[2], TRUE)
        final == call_llm_for_sections(llm[3], TRUE)
        error(made, message) ==
            [events |-> made, cache |-> cache,
             response |-> Returns([status |-> "error", error |-> message])]
        raised(made, exception) ==
            [events |-> made, cache |-> cache, response |-> Raises(exception)]
        result == [status |-> "success",
                   has_sections |-> TRUE,
                   sections |-> final.value.sections,
                   rag_queries_performed |-> 5,
                   iteration_notes |->
                       [iteration1_count |-> Len(rough.value.sections),
                        iteration2_count |-> Len(iteration2.value.sections),
                        iteration3_count |-> Len(final.value.sections)],
                   cached |-> FALSE]
    IN  IF use_cache /\ cache # None
        THEN [events |-> <<>>, cache |-> cache,
              response |->
                  Returns([cache[1] EXCEPT
                             !.sections = IF cache[1].has_sections
                                          THEN SelectSeq(@, validate_section)
                                          ELSE @,
                             !.cached = TRUE])]
        ELSE IF rag = "none" THEN raised(<<>>, "RuntimeError")
        ELSE IF rough.raised # "" THEN raised(IterationEvents(1), rough.raised)
        ELSE IF rough.value.sections = <<>>
        THEN error(IterationEvents(1), "Failed to identify rough sections")
        ELSE IF iteration2.raised # "" THEN raised(IterationEvents(2), iteration2.raised)
        ELSE IF ~HasSections(iteration2.value)
        THEN error(IterationEvents(2), "Failed to refine sections")
        ELSE IF final.raised # "" THEN raised(IterationEvents(3), final.raised)
        ELSE IF ~HasSections(final.value)
        THEN error(IterationEvents(3), "Failed to assign files to sections")
        ELSE [events |-> IterationEvents(3) \o <<Event("write", "sections cache")>>,
              cache |-> Some(result),
              response |-> Returns(result)]

\* WikiDiagramGenerator.identify_diagram_sections(language, use_cache); an
\* iteration that the call does not reach gets no answer
IdentifyDiagramSections ==
    /\ pc = "ready"
    /\ \E use_cache \in BOOLEAN, rag \in {"none", "answers", "raises"} :
       LET hit == (use_cache /\ sections_json # None) \/ rag = "none" IN
       \E llm1 \in IF hit THEN {NotCalled} ELSE LlmSectionAnswers :
       \E llm2 \in IF ~hit /\ call_llm_for_sections(llm1, FALSE).value.sections # <<>>
                   THEN LlmSectionAnswers ELSE {NotCalled} :
       \E llm3 \in IF llm2 # NotCalled /\ call_llm_for_sections(llm2, TRUE).raised = ""
                      /\ HasSections(call_llm_for_sections(llm2, TRUE).value)
                   THEN LlmSectionAnswers ELSE {NotCalled} :
          LET out == identify_diagram_sections(sections_json, use_cache, rag,
                                               <<llm1, llm2, llm3>>) IN
          /\ request' = Some([endpoint |-> "identify_diagram_sections",
                              use_cache |-> use_cache, rag |-> rag,
                              llm |-> <<llm1, llm2, llm3>>])
          /\ events' = out.events
          /\ response' = out.response
          /\ sections_json' = out.cache
    /\ pc' = "responded"
    /\ UNCHANGED <<embedVars, collectVars, indexVars, nameVars, wiki_dirs, wiki_gen,
                   rag_call, section, rankings, fused, diag_json, diag_mmd, wiki_db>>

(***************************************************************************)
(* generate_section_diagram and fix_corrupted_diagram, wiki_diagram.py     *)
(* lines 340-545, for the section SectionId.  What the model answers to    *)
(* the diagram prompt is an exception of the client, a text that is no     *)
(* JSON, a JSON list, or a JSON object with the Mermaid code code.         *)
(***************************************************************************)
LlmDiagramAnswers ==
    {[kind |-> k, code |-> <<>>] : k \in {"raises", "unparseable", "list"}}
    \cup {[kind |-> "diagram", code |-> code] :
            code \in GeneratedCodes \cup {<<>>, <<Only("graph"), EdgeLine("A", "B")>>}}

\* _process_diagram_response, lines 804-910: what it returns or raises
process_diagram_response(llm) ==
    CASE llm.kind = "unparseable" ->
           Returns([status |-> "error", error |-> "JSON parse error"])
      [] llm.kind = "list" -> Raises("AttributeError")
      [] OTHER ->
           IF validate_mermaid_syntax(llm.code)[1]
           THEN Returns(SectionDiagram(llm.code))
           ELSE Returns([status |-> "error", error |-> "Invalid Mermaid syntax"])

\* lines 959-966: the sections cache file as _add_custom_section_to_cache
\* creates it
SectionsFile(sections) ==
    [status |-> "success", has_sections |-> TRUE, sections |-> sections, cached |-> FALSE]

\* _is_custom_section and _add_custom_section_to_cache, lines 940-1021: the
\* sections cache file after a diagram of the section was cached
add_custom_section_to_cache(sections, result) ==
    LET new_section ==
            [section_id |-> result.section_id,
             section_title |-> "Overview",
             section_description |-> "How the parts fit",
             diagram_type |-> IF result.diagram.diagram_type = None
                              THEN "null" ELSE result.diagram.diagram_type[1]]
        sections_data ==
            IF sections # None THEN sections[1] ELSE SectionsFile(<<>>)
        listed == IF sections_data.has_sections THEN sections_data.sections ELSE <<>>
    IN  IF \E k \in 1..Len(listed) : "section_id" \notin DOMAIN listed[k]
        THEN sections
        ELSE IF \E k \in 1..Len(listed) : listed[k]["section_id"] = result.section_id
        THEN sections
        ELSE Some([sections_data EXCEPT !.has_sections = TRUE,
                                        !.sections = Append(listed, new_section)])

\* the cache test that never finds the file
CacheHitNever(use_cache, json) == FALSE

\* lines 368-371: use_cache and os.path.exists(cache_file)
CacheHit(use_cache, json) == use_cache /\ json # None

\* generate_section_diagram(..., use_cache, reference_files) and, with
\* fix set, fix_corrupted_diagram(...), which reads no cache and no
\* reference file: the calls made, what is returned or raised, and the
\* three files afterwards
generate_section_diagram(json, mmd, sections, fix, use_cache, reference_files, rag, llm) ==
    LET unchanged(made, r) ==
            [events |-> made, response |-> r, json |-> json, mmd |-> mmd,
             sections |-> sections]
        retrieval == IF ~fix /\ reference_files
                     THEN <<Event("read", "reference files")>>
                     ELSE <<Event("rag.call", "section queries")>>
        prompted == retrieval \o <<Event("llm", "diagram")>>
        processed == process_diagram_response(llm)
    IN  IF ~fix /\ CacheHit(use_cache, json)
        THEN unchanged(<<>>, Returns([json[1] EXCEPT !.cached = TRUE]))
        ELSE IF rag = "none" THEN unchanged(<<>>, Raises("RuntimeError"))
        ELSE IF llm.kind = "raises" THEN unchanged(prompted, Raises("model.call"))
        ELSE IF processed[1].raised \/ processed[1].body.status # "success"
        THEN unchanged(prompted, processed)
        ELSE [events |-> prompted \o <<Event("write", "diagram cache")>>,
              response |-> processed,
              json |-> Some(processed[1].body),
              mmd |-> Some(llm.code),
              sections |-> add_custom_section_to_cache(sections, processed[1].body)]

\* one call of generate_section_diagram (fix is FALSE) or of
\* fix_corrupted_diagram (fix is TRUE)
DiagramCall(fix) ==
    /\ pc = "ready"
    /\ \E use_cache \in IF fix THEN {FALSE} ELSE BOOLEAN,
          reference_files \in IF fix THEN {FALSE} ELSE BOOLEAN,
          rag \in {"none", "answers", "raises"}, llm \in LlmDiagramAnswers :
          LET out == generate_section_diagram(diag_json, diag_mmd, sections_json, fix,
                                              use_cache, reference_files, rag, llm) IN
          /\ request' = Some([endpoint |-> IF fix THEN "fix_corrupted_diagram"
                                           ELSE "generate_section_diagram",
                              use_cache |-> use_cache,
                              reference_files |-> reference_files,
                              rag |-> rag, llm |-> llm])
          /\ events' = out.events
          /\ response' = out.response
          /\ diag_json' = out.json
          /\ diag_mmd' = out.mmd
          /\ sections_json' = out.sections
    /\ UNCHANGED <<pc, embedVars, collectVars, indexVars, nameVars, wiki_dirs, wiki_gen,
                   rag_call, section, rankings, fused, wiki_db>>

GenerateSectionDiagram == DiagramCall(FALSE)

FixCorruptedDiagram == DiagramCall(TRUE)

(***************************************************************************)
(* Specifications of the wiki cache: SpecWikiRag, query_wiki_rag on every  *)
(* wiki database; SpecSections, one call of identify_diagram_sections on   *)
(* every sections cache file; SpecDiagramCache, calls of                   *)
(* generate_section_diagram and fix_corrupted_diagram one after the other, *)
(* on a section that has no cached diagram at first.                       *)
(***************************************************************************)
\* the wiki database file: missing, without the key "wiki_content", with
\* None for it, or with up to MaxWikiDocs documents, each with the score
\* the keywords of the query give it
WikiDatabases ==
    {None}
    \cup {Some([kind |-> k, docs |-> <<>>]) : k \in {"no key", "none"}}
    \cup {Some([kind |-> "docs", docs |-> docs]) :
            docs \in SeqUpTo({[id |-> "overview", score |-> 1], [id |-> "api", score |-> 2],
                              [id |-> "plan", score |-> 0], [id |-> "deploy", score |-> 1]},
                             MaxWikiDocs)}

\* the sections cache file: missing, as identify_diagram_sections or
\* _add_custom_section_to_cache wrote it, or as somebody else left it
SectionCaches ==
    {None,
     Some(SectionsFile(<<ValidSection>>)),
     Some(SectionsFile(<<[ValidSection EXCEPT !.section_id = "api"]>>)),
     Some(SectionsFile(<<ValidSection,
                         [ValidSection EXCEPT !.section_id = "plan",
                                              !.diagram_type = "null"]>>)),
     Some(SectionsFile(<<[k \in {"section_id", "section_title", "diagram_type"} |->
                            ValidSection[k]],
                         [ValidSection EXCEPT !.section_description = ""]>>)),
     Some([SectionsFile(<<>>) EXCEPT !.has_sections = FALSE])}

InitCache(databases, caches) ==
    /\ pc = "ready"
    /\ documents = <<>>
    /\ provider = <<>>
    /\ ret = EmbedStart(<<>>)
    /\ files = <<>>
    /\ collected = <<>>
    /\ folder_kind = "dir"
    /\ store = None
    /\ stats = [status |-> "none"]
    /\ replaced = FALSE
    /\ cwd = <<"/">>
    /\ calls = <<>>
    /\ wiki_dirs = TRUE
    /\ wiki_gen = TRUE
    /\ request = None
    /\ rag_call = None
    /\ section = None
    /\ rankings = None
    /\ fused = None
    /\ diag_json = None
    /\ diag_mmd = None
    /\ sections_json \in caches
    /\ wiki_db \in databases
    /\ events = <<>>
    /\ response = None

SpecWikiRag == InitCache(WikiDatabases, {None}) /\ [][QueryWikiRag]_vars

SpecSections == InitCache({None}, SectionCaches) /\ [][IdentifyDiagramSections]_vars

NextDiagramCache == GenerateSectionDiagram \/ FixCorruptedDiagram

SpecDiagramCache ==
    InitCache({None}, {c \in SectionCaches : c = None \/ Len(c[1].sections) = 1})
      /\ [][NextDiagramCache]_vars

(***************************************************************************)
(* Claims about query_wiki_rag (SpecWikiRag).                              *)
(***************************************************************************)
\* the wiki database exists and holds documents
WikiDbUsable == wiki_db # None /\ wiki_db[1].kind = "docs" /\ wiki_db[1].docs # <<>>

\* C24: when rag.call raises, query_wiki_rag still calls the generator, with
\* the wiki context and the codebase context "Codebase context
\* unavailable.", and the answer the generator gives is returned with status
\* "success" and codebase_retrieved 0; when the wiki database is missing or
\* empty, the result has status "error" and neither rag.call nor the
\* generator was called
C24_RagFailureContained ==
    request # None =>
        /\ (WikiDbUsable /\ request[1].rag.kind = "raises") =>
              /\ Len(events) = 3
              /\ events[2].call = "rag.call"
              /\ events[3].call = "_generate_answer"
              /\ events[3].arg.codebase =
                     [text |-> "Codebase context unavailable.", docs |-> <<>>]
              /\ events[3].arg.wiki.docs =
                     retrieve_wiki_docs(wiki_db[1].docs, request[1].top_k)
              /\ request[1].llm.kind = "answer" =>
                    /\ ~response[1].raised
                    /\ response[1].body.status = "success"
                    /\ response[1].body.answer = request[1].llm.content
                    /\ response[1].body.codebase_retrieved = 0
        /\ ~WikiDbUsable =>
              /\ ~response[1].raised
              /\ response[1].body.status = "error"
              /\ \A k \in 1..Len(events) :
                    events[k].call \notin {"rag.call", "_generate_answer"}

\* rag.call raised, wiki documents were retrieved and the answer came back
C24_Witness ==
    /\ request # None
    /\ WikiDbUsable
    /\ request[1].rag.kind = "raises"
    /\ ~response[1].raised
    /\ response[1].body.status = "success"
    /\ response[1].body.wiki_retrieved > 0
    /\ response[1].body.codebase_retrieved = 0

(***************************************************************************)
(* Claims about identify_diagram_sections (SpecSections).                  *)
(***************************************************************************)
\* the step is a call that does not answer from the cache, on a generator
\* whose rag is set
IdentifyRuns ==
    /\ pc = "ready"
    /\ pc' = "responded"
    /\ request'[1].endpoint = "identify_diagram_sections"
    /\ ~(request'[1].use_cache /\ sections_json # None)
    /\ request'[1].rag # "none"

\* the call wrote the sections cache file
CacheWritten(made) == Event("write", "sections cache") = made[Len(made)]

C23_SectionsValid ==
    (pc = "responded" /\ request[1].endpoint = "identify_diagram_sections"
       /\ ~response[1].raised /\ "sections" \in DOMAIN response[1].body) =>
        \A k \in 1..Len(response[1].body.sections) :
            LET sec == response[1].body.sections[k] IN
            /\ \A field \in {"section_id", "section_title", "section_description",
                             "diagram_type"} :
                  field \in DOMAIN sec /\ sec[field] \notin {"", "null"}
            /\ sec["diagram_type"] \in
                  {"flowchart", "sequence", "class", "stateDiagram", "erDiagram"}

\* a generated result that lost a section of the last iteration, and a
\* cached one that lost a section of the file
C23_Witness ==
    /\ pc = "responded"
    /\ request[1].endpoint = "identify_diagram_sections"
    /\ ~response[1].raised
    /\ response[1].body.status = "success"
    /\ response[1].body.sections # <<>>
    /\ \/ /\ ~response[1].body.cached
          /\ Len(response[1].body.sections) < Len(request[1].llm[3].sections)
       \/ /\ response[1].body.cached
          /\ Len(response[1].body.sections) < Len(sections_json[1].sections)

(***************************************************************************)
(* Claims about the diagram cache (SpecDiagramCache).                      *)
(***************************************************************************)
\* the step is a call of generate_section_diagram or fix_corrupted_diagram
\* that follows a call whose generation failed: the LLM was asked and no
\* successful result came back
AfterFailedGeneration ==
    /\ request # None
    /\ Event("llm", "diagram") \in {events[k] : k \in 1..Len(events)}
    /\ response[1].raised \/ response[1].body.status # "success"
    /\ request' # None
    /\ request'[1].rag # "none"

\* the cache holds successful results only, and a call with use_cache that
\* finds the file returns it without any rag.call or LLM call
OnlySuccessCached ==
    /\ (diag_json' # diag_json \/ Event("write", "diagram cache") \in
                                     {events'[k] : k \in 1..Len(events')}) =>
          /\ ~response'[1].raised
          /\ response'[1].body.status = "success"
          /\ diag_json' = Some(response'[1].body)
    /\ diag_json' # None => diag_json'[1].status = "success"
    /\ diag_json # None => diag_json' # None
    /\ (/\ request'[1].endpoint = "generate_section_diagram"
        /\ request'[1].use_cache
        /\ diag_json # None) =>
          /\ events' = <<>>
          /\ response' = Returns([diag_json[1] EXCEPT !.cached = TRUE])
          /\ diag_json' = diag_json

\* C21 as stated: diag_<section_id>.json is written only with a result of
\* status "success"; once written, every generate_section_diagram call with
\* use_cache=True returns the stored data with cached=True and calls neither
\* rag nor the LLM; and after a failed generation the next
\* generate_section_diagram call invokes the LLM again
C21_RetryAfterFailure ==
    [][(pc = "ready" /\ request' # None) =>
          /\ OnlySuccessCached
          /\ (AfterFailedGeneration
                /\ request'[1].endpoint = "generate_section_diagram") =>
                Event("llm", "diagram") \in {events'[k] : k \in 1..Len(events')}]_vars

\* C21 (amended): diag_<section_id>.json is written only with a result of
\* status "success"; once written, every generate_section_diagram call with
\* use_cache=True returns the stored data with cached=True and calls neither
\* rag nor the LLM; a failed generation writes nothing, so the next call
\* invokes the LLM again unless it is a generate_section_diagram call with
\* use_cache=True on a section with an earlier successful result, which
\* returns that result
C21_OnlySuccessCached ==
    [][(pc = "ready" /\ request' # None) =>
          /\ OnlySuccessCached
          /\ AfterFailedGeneration =>
                /\ diag_json = None =>
                      Event("llm", "diagram") \in {events'[k] : k \in 1..Len(events')}
                /\ Event("llm", "diagram") \in {events'[k] : k \in 1..Len(events')}
                     <=> ~(/\ request'[1].endpoint = "generate_section_diagram"
                           /\ request'[1].use_cache
                           /\ diag_json # None)]_vars

\* a generate_section_diagram call with use_cache=True answered from the
\* file an earlier successful call wrote
C21_Witness ==
    /\ request # None
    /\ request[1].endpoint = "generate_section_diagram"
    /\ request[1].use_cache
    /\ request[1].rag # "none"
    /\ events = <<>>
    /\ ~response[1].raised
    /\ response[1].body.status = "success"
    /\ response[1].body.cached
    /\ diag_json # None
    /\ diag_json[1].cached = FALSE

====
